---- MODULE Spec2Model ----
(***************************************************************************)
(* A model of the local-ai service supervisor (local_ai/core.py) and of    *)
(* the concurrent fetcher (crypto_models/download.py).                     *)
(*                                                                         *)
(* Part I  : LocalAIManager.start / stop and the _start_lock context       *)
(*           manager, run by several OS processes on one lock-file path    *)
(*           and one running-service file.          (specification Spec)   *)
(*           restart() is in SpecRestart; stop() with every step of        *)
(*           terminate_process_group is in SpecStop; the lock alone, with  *)
(*           concurrent processes, is in SpecLock.                         *)
(* Part II : download_model_from_filecoin_async, the fan-out of            *)
(*           download_files_from_lighthouse_async and the per-blob retry   *)
(*           loop of download_single_file_async.    (specification         *)
(*           SpecFetch)                                                    *)
(***************************************************************************)
EXTENDS Integers, FiniteSets, Sequences, TLC

(***************************************************************************)
(* Bounds of the model.                                                    *)
(***************************************************************************)
\* OS processes that each call LocalAIManager.start once
NumProcs == 3

Procs == 1..NumProcs

\* blob descriptors in the manifest ("files"); num_of_files agrees with it
NumBlobs == 2

Blobs == 1..NumBlobs
num_of_files == NumBlobs

\* the largest sum of the blob sizes of a manifest, in MiB, in the model of
\* the ProgressTracker
MaxTotalMiB == 100

\* the longest files list of a manifest in the semaphore model: the limit
\* of MAX_CONCURRENT_DOWNLOADS binds from 17 descriptors on
MaxFiles == 18

\* core.py: the default of start()'s context_length parameter
DefaultContextLength == 32768

\* download.py: the constants of the fetcher
SLEEP_TIME == 60
MAX_ATTEMPTS == 2
MAX_CONCURRENT_DOWNLOADS == 16
\* sizes are counted in MiB in the model of the ProgressTracker
CHUNK_SIZE_MB == 4
PROGRESS_BATCH_SIZE == 10

\* core.py: the model families of the family rule, in the order tested
Families == {"gemma", "qwen25", "qwen3", "llama"}

\* content addresses and API ports a caller may pass to start(hash, port)
Hashes == {"QmA", "QmB"}
Ports == {11434, 8080}

\* inodes the lock-file path can name: one per open descriptor plus one
Inodes == 1..(NumProcs + 1)

VARIABLES
    \* ---- Part I: one entry per OS process calling start() ----
    pc,           \* position of the process in start() / _start_lock()
    hash,         \* start()'s hash argument
    port,         \* start()'s port argument (app_port)
    lock_fd,      \* _start_lock's lock_fd: the inode it has open, 0 = None
    result,       \* what start() returned or raised
    blocking_pid, \* the PID named in ServiceAlreadyStartingError, 0 = none
    health_ok,    \* the ports ("ai", "api") whose wait_for_health was true
    \* ---- the file system and the OS ----
    lockPath,     \* inode that start_lock_file names, 0 = no such file
    lockContent,  \* inode -> PID written in it, 0 = empty file
    flockHolder,  \* inode -> process holding the exclusive flock, 0 = free
    record,       \* content of pickle_file, NoRecord = no such file
    aiSt,         \* status of the backend child spawned by each start call
    apiSt,        \* status of the API child spawned by each start call
    apiPort,      \* port the API child was started on, 0 = no such child
    stopRet,      \* return value of the last stand-alone stop() call
    context_length, \* per process: the context_length argument of start()
    \* ---- stop() taken step by step (specification SpecStop) ----
    spc,          \* position of the stop() call
    tphase,       \* position inside terminate_process_group
    service_info, \* the record stop() loaded from the running-service file
    ai_stopped,   \* result of terminate_process_group(pid, "AI service")
    api_stopped,  \* result of terminate_process_group(app_pid, ...)
    sigs,         \* the signals stop() has sent to each of the two PIDs
    stop_calls,   \* number of stop() calls made so far
    dead_at_call, \* the recorded PIDs already missing or zombie at the call
    \* ---- Part II: download_model_from_filecoin_async ----
    opc,              \* position of the orchestrator
    attempt,          \* its loop variable, 1..MAX_ATTEMPTS
    connector_closed, \* the TCPConnector made before the loop was closed
    paths,            \* what download_files_from_lighthouse_async returned
    ret,              \* what the orchestrator returned
    output_exists,    \* <output_dir>/<hash>.gguf exists
    folder_exists,    \* the working folder <cwd>/<folder_name> exists
    extracted,        \* what extraction put into the working folder: "none",
                      \* "model", or "model_projector" (the model and its
                      \* '<folder_name>-projector' sibling)
    projector_exists, \* <output_dir>/<hash>.gguf-projector exists
    \* ---- one entry per blob: download_single_file_async ----
    fpc,              \* position of the blob's fetcher
    attempts,         \* its attempts counter
    wait_time,        \* its wait_time: {} while unassigned, else {seconds}
    outcome,          \* "path", "error" (the (None, msg) tuple) or "raised"
    final,            \* the file at <folder>/<file_name>
    tmp,              \* the file at <folder>/<file_name>.tmp: "absent",
                      \* "stale" (left by an interrupted earlier run) or
                      \* "partial" (written by an attempt of this call)
    requests,         \* number of session.get calls made for the blob
    \* ---- the semaphore of download_files_from_lighthouse_async ----
    total_files,      \* len(data["files"]), 0 = no fan-out
    declared_files,   \* data["num_of_files"]
    semaphore,        \* the counter of the asyncio.Semaphore
    waiting,          \* tasks that have not passed "async with semaphore"
    in_flight,        \* tasks inside download_single_file_async
    \* ---- the command line of the backend (specification SpecCommand) ----
    folder_name,          \* the manifest's folder_name, a sequence of characters
    requested_context,    \* the context_length argument of start()
    template_files,       \* families with a file examples/templates/<f>.jinja
    best_practice_files,  \* family -> {} (no examples/best_practices/<f>.json)
                          \* or {the mapping in that file}
    multimodal,           \* the projector file exists next to the model
    running_ai_command,   \* the argv built by start(), <<>> before that
    recorded_context,     \* service_metadata["context_length"], 0 before that
    restarts,             \* restart() calls made so far
    \* ---- ProgressTracker and the tasks of one fan-out (SpecProgress) ----
    pending_bytes,          \* MiB reported and not yet added to the total
    total_bytes_downloaded, \* MiB
    total_bytes_expected,   \* MiB: the sum of the sizes registered
    completed_files,
    reported,               \* MiB: the sum of the arguments of all calls of
                            \* update_progress_batched so far
    blob_size,              \* per blob: the size of its body in MiB
    sends_length,           \* the gateway sends a Content-Length header
    remaining,              \* per blob: MiB of the body not yet read
    tries,                  \* per blob: the attempts counter of its fetcher
    tpc,                    \* per blob: "request", "streaming", "returned" (the
                            \* task ended with a path), "errored" (it ended
                            \* without one), and once the as_completed loop
                            \* has taken the result "counted" or "dismissed"
    mpc,                    \* the fan-out: "none", "gathering" results,
                            \* "cancelling" in cleanup(), "cleaned"
    ppc,                    \* the periodic task: "none", "sleeping", "ended"
    wakes_since_log,        \* wake-ups of the periodic task without a line
                            \* since its last line, at most 1
    progress_lines,         \* percentages, in tenths, of the progress lines
                            \* printed so far that say all files are complete
    \* ---- the streaming loop of one attempt (specification SpecStream) ----
    stream,                 \* "none", "waiting" for the next chunk, "processing"
                            \* a chunk, "done" (the body ended), "timed_out"
                            \* (the handler of asyncio.TimeoutError ran)
    now,                    \* loop.time() in seconds since the response
    last_data_time,         \* the variable of that name
    chunks_read,            \* chunks the loop has gone through
    \* ---- the two locks of the ProgressTracker (SpecTrackerLocks) ----
    lpc,                    \* per task: where it is in its lock protocol
    lock,                   \* the task that holds self.lock, 0 = unlocked
    lock_waiters,           \* the waiters of self.lock, first come first
    pending_lock,           \* the task that holds self.pending_lock, or 0
    pending_waiters,        \* the waiters of self.pending_lock
    \* ---- the as_completed loop of one fan-out (SpecFanout) ----
    ended,                  \* per outcome: tasks that have ended with it and
                            \* whose result the loop has not taken yet
    successful_count,       \* len(successful_downloads)
    failed_count,           \* len(failed_downloads)
    fanout_done             \* the loop is over and cleanup() has returned

termVars == <<spc, tphase, service_info, ai_stopped, api_stopped, sigs,
              stop_calls, dead_at_call>>

supVars == <<pc, hash, port, lock_fd, result, blocking_pid, health_ok, lockPath,
             lockContent, flockHolder, record, aiSt, apiSt, apiPort, stopRet,
             context_length, termVars>>

orchVars == <<opc, attempt, connector_closed, paths, ret, output_exists,
              folder_exists, extracted, projector_exists>>

blobVars == <<fpc, attempts, wait_time, outcome, final, tmp, requests>>

fetchVars == <<orchVars, blobVars>>

\* the semaphore of one fan-out, its tasks counted by where they are
poolVars == <<total_files, declared_files, semaphore, waiting, in_flight>>

\* the inputs and the result of the command construction in start()
cmdVars == <<folder_name, requested_context, template_files,
             best_practice_files, multimodal, running_ai_command,
             recorded_context, restarts>>

\* the ProgressTracker of one fan-out and the tasks that report to it
trackVars == <<pending_bytes, total_bytes_downloaded, total_bytes_expected,
               completed_files, reported, blob_size, sends_length, remaining,
               tries, tpc, mpc, ppc, wakes_since_log, progress_lines>>

\* the streaming loop of one attempt and its clock
streamVars == <<stream, now, last_data_time, chunks_read>>

\* the variables of the specifications of single parts of the fetcher
\* the two asyncio.Lock objects of the ProgressTracker and their users:
\* the fetchers 1..NumBlobs, the periodic task and the as_completed loop
lockVars == <<lpc, lock, lock_waiters, pending_lock, pending_waiters>>

Tasks == 1..(NumBlobs + 2)

PeriodicTask == NumBlobs + 1

MainTask == NumBlobs + 2

\* the results of the tasks of one fan-out and what the loop made of them
gatherVars == <<ended, successful_count, failed_count, fanout_done>>

\* how a task of the fan-out can end: download_single_file_async returned
\* (path, None) or (None, error), or it raised
Outcomes == {"path", "error", "raised"}

extraVars == <<streamVars, lockVars, gatherVars>>

auxVars == <<poolVars, cmdVars, trackVars, extraVars>>

vars == <<supVars, fetchVars, auxVars>>

NoRecord ==
    [hash |-> "", app_port |-> 0, context_length |-> 0, pid |-> 0,
     app_pid |-> 0]

\* psutil.pid_exists for the PID of a start process: the process lives
\* from its launch until start() has returned or raised
PidExists(p) == p \in Procs /\ pc[p] \notin {"idle", "done"}

InitSup ==
    /\ pc = [s \in Procs |-> "idle"]
    /\ hash = [s \in Procs |-> ""]
    /\ port = [s \in Procs |-> 0]
    /\ lock_fd = [s \in Procs |-> 0]
    /\ result = [s \in Procs |-> "none"]
    /\ blocking_pid = [s \in Procs |-> 0]
    /\ health_ok = [s \in Procs |-> {}]
    /\ lockPath = 0
    /\ lockContent = [i \in Inodes |-> 0]
    /\ flockHolder = [i \in Inodes |-> 0]
    /\ record = NoRecord
    /\ aiSt = [s \in Procs |-> "none"]
    /\ apiSt = [s \in Procs |-> "none"]
    /\ apiPort = [s \in Procs |-> 0]
    /\ stopRet = "none"
    /\ context_length = [s \in Procs |-> 0]
    /\ spc = "idle"
    /\ tphase = "none"
    /\ service_info = NoRecord
    /\ ai_stopped = FALSE
    /\ api_stopped = FALSE
    /\ sigs = [t \in {"ai", "api"} |-> {}]
    /\ stop_calls = 0
    /\ dead_at_call = {}

\* nothing has been called yet; an earlier run may have left the artifact,
\* verified or stale blobs and temp files behind
FetchIdle ==
    /\ opc = "idle"
    /\ attempt = 0
    /\ connector_closed = FALSE
    /\ paths = {}
    /\ ret = "none"
    /\ output_exists \in BOOLEAN
    /\ extracted = "none"
    /\ projector_exists \in (IF output_exists THEN BOOLEAN ELSE {FALSE})
    /\ fpc = [b \in Blobs |-> "idle"]
    /\ attempts = [b \in Blobs |-> 0]
    /\ requests = [b \in Blobs |-> 0]
    /\ wait_time = [b \in Blobs |-> {}]
    /\ outcome = [b \in Blobs |-> "none"]
    /\ final \in [Blobs -> {"absent", "good", "bad"}]
    /\ tmp \in [Blobs -> {"absent", "stale"}]
    /\ folder_exists =
          (\E b \in Blobs : final[b] # "absent" \/ tmp[b] # "absent")

\* the fetcher is not in use and the disk is clean
FetchAtRest ==
    /\ FetchIdle
    /\ ~output_exists
    /\ ~folder_exists

\* no fan-out has created its semaphore
PoolIdle ==
    /\ total_files = 0
    /\ declared_files = 0
    /\ semaphore = 0
    /\ waiting = 0
    /\ in_flight = 0

\* no command line has been asked for
CmdIdle ==
    /\ folder_name = <<>>
    /\ requested_context = 0
    /\ template_files = {}
    /\ best_practice_files = [f \in Families |-> {}]
    /\ multimodal = FALSE
    /\ running_ai_command = <<>>
    /\ recorded_context = 0
    /\ restarts = 0

\* no ProgressTracker has been made
TrackIdle ==
    /\ pending_bytes = 0
    /\ total_bytes_downloaded = 0
    /\ total_bytes_expected = 0
    /\ completed_files = 0
    /\ reported = 0
    /\ blob_size = [b \in Blobs |-> 0]
    /\ sends_length = FALSE
    /\ remaining = [b \in Blobs |-> 0]
    /\ tries = [b \in Blobs |-> 0]
    /\ tpc = [b \in Blobs |-> "none"]
    /\ mpc = "none"
    /\ ppc = "none"
    /\ wakes_since_log = 0
    /\ progress_lines = {}

StreamIdle ==
    /\ stream = "none"
    /\ now = 0
    /\ last_data_time = 0
    /\ chunks_read = 0

\* ProgressTracker.__init__: both locks are new, no task has called in
LocksIdle ==
    /\ lpc = [t \in Tasks |-> "idle"]
    /\ lock = 0
    /\ lock_waiters = <<>>
    /\ pending_lock = 0
    /\ pending_waiters = <<>>

\* no task of a fan-out has ended and no result has been taken
GatherIdle ==
    /\ ended = [o \in Outcomes |-> 0]
    /\ successful_count = 0
    /\ failed_count = 0
    /\ fanout_done = FALSE

ExtraIdle == StreamIdle /\ LocksIdle /\ GatherIdle

AuxIdle == PoolIdle /\ CmdIdle /\ TrackIdle /\ ExtraIdle

Init == InitSup /\ FetchAtRest /\ AuxIdle

InitFetch == InitSup /\ FetchIdle /\ AuxIdle


(***************************************************************************)
(* The OS: child processes, signals, ports.                                *)
(*   "none"        never spawned                                           *)
(*   "running"     alive, serving its port                                 *)
(*   "terminating" alive, a SIGTERM is pending or being handled            *)
(*   "stopped"     alive but suspended (psutil.STATUS_STOPPED)             *)
(*   "zombie"      exited, not yet reaped (psutil.STATUS_ZOMBIE)           *)
(*   "exited"      the PID no longer exists                                *)
(***************************************************************************)
Alive(st) == st \in {"running", "terminating", "stopped", "killing"}

\* socket.connect_ex((host, p)) == 0: some API child is bound to the port
PortListening(p) == \E c \in Procs : Alive(apiSt[c]) /\ apiPort[c] = p

\* subprocess.Popen.terminate(): one SIGTERM to the process, not waited for
PopenTerminate(st) == IF st = "running" THEN "terminating" ELSE st

\* stop.terminate_process_group seen as a whole: the status the process is
\* left in and the value returned.  A missing PID, a zombie and a
\* dead/stopped process are reported as terminated without any signal;
\* anything else gets SIGTERM, is polled, then gets SIGKILL, and is gone.
\* (Children that obey the signals in time; SpecStop has the steps.)
TerminateProcessGroup(st) ==
    CASE st \in {"none", "exited"} -> [status |-> st, ok |-> TRUE]
      [] st = "zombie"             -> [status |-> st, ok |-> TRUE]
      [] st = "stopped"            -> [status |-> st, ok |-> TRUE]
      [] OTHER                     -> [status |-> "exited", ok |-> TRUE]

\* stop(): the children statuses and the return value it produces when the
\* running-service file holds rec.  The port re-checks of stop() only log.
StopAi(rec) ==
    [aiSt EXCEPT ![rec.pid] = TerminateProcessGroup(@).status]

StopApi(rec) ==
    [apiSt EXCEPT ![rec.app_pid] = TerminateProcessGroup(@).status]

StopReturns(rec) ==
    /\ TerminateProcessGroup(aiSt[rec.pid]).ok
    /\ TerminateProcessGroup(apiSt[rec.app_pid]).ok

\* stop() as a step of the caller: no record, nothing happens; otherwise
\* both process groups are terminated and the record file is removed
Stop ==
    IF record = NoRecord
    THEN UNCHANGED <<record, aiSt, apiSt>>
    ELSE /\ aiSt' = StopAi(record)
         /\ apiSt' = StopApi(record)
         /\ record' = NoRecord

(***************************************************************************)
(* _start_lock: acquire                                                    *)
(***************************************************************************)
\* an inode no path and no descriptor refers to
FreeInode ==
    CHOOSE i \in Inodes :
        /\ i # lockPath
        /\ \A s \in Procs : lock_fd[s] # i
        /\ \A j \in Inodes :
              (j # lockPath /\ \A s \in Procs : lock_fd[s] # j) => i <= j

\* a process is launched and calls start(h, p, context_length = c); the
\* processes are interchangeable and are launched in the order of their
\* numbers
CallStartWith(s, h, p, c) ==
    /\ pc[s] = "idle"
    /\ \A q \in Procs : q < s => pc[q] # "idle"
    /\ hash' = [hash EXCEPT ![s] = h]
    /\ port' = [port EXCEPT ![s] = p]
    /\ context_length' = [context_length EXCEPT ![s] = c]
    /\ pc' = [pc EXCEPT ![s] = "open"]
    /\ UNCHANGED <<fetchVars, auxVars, termVars, health_ok, lock_fd, result, blocking_pid, lockPath, lockContent,
                   flockHolder, record, aiSt, apiSt, apiPort, stopRet>>

\* start(h, p) with the default context_length
CallStart(s, h, p) == CallStartWith(s, h, p, DefaultContextLength)

\* os.open(start_lock_file, O_CREAT | O_WRONLY | O_TRUNC): creates the
\* file if the path is free and empties it in every case
OpenLockFile(s) ==
    /\ pc[s] = "open"
    /\ LET i == IF lockPath = 0 THEN FreeInode ELSE lockPath IN
          /\ lockPath' = i
          /\ lockContent' = [lockContent EXCEPT ![i] = 0]
          /\ lock_fd' = [lock_fd EXCEPT ![s] = i]
    /\ pc' = [pc EXCEPT ![s] = "flock"]
    /\ UNCHANGED <<fetchVars, auxVars, termVars, context_length, health_ok, hash, port, result, blocking_pid, flockHolder, record,
                   aiSt, apiSt, apiPort, stopRet>>

\* fcntl.flock(lock_fd, LOCK_EX | LOCK_NB): taken, or BlockingIOError
TryFlock(s) ==
    /\ pc[s] = "flock"
    /\ IF flockHolder[lock_fd[s]] = 0
       THEN /\ flockHolder' = [flockHolder EXCEPT ![lock_fd[s]] = s]
            /\ pc' = [pc EXCEPT ![s] = "write_pid"]
       ELSE /\ pc' = [pc EXCEPT ![s] = "blocked"]
            /\ UNCHANGED flockHolder
    /\ UNCHANGED <<fetchVars, auxVars, termVars, context_length, health_ok, hash, port, lock_fd, result, blocking_pid, lockPath,
                   lockContent, record, aiSt, apiSt, apiPort, stopRet>>

\* os.write(lock_fd, pid); os.fsync(lock_fd); yield
WritePid(s) ==
    /\ pc[s] = "write_pid"
    /\ lockContent' = [lockContent EXCEPT ![lock_fd[s]] = s]
    /\ pc' = [pc EXCEPT ![s] = "check_port"]
    /\ UNCHANGED <<fetchVars, auxVars, termVars, context_length, health_ok, hash, port, lock_fd, result, blocking_pid, lockPath,
                   flockHolder, record, aiSt, apiSt, apiPort, stopRet>>

\* except BlockingIOError: read the PID from the file at the lock path.
\* No file: OSError, "appears to be running".  A digit string naming a
\* live PID: "already running (PID: ...)".  Otherwise the lock is stale.
ReadBlockingPid(s) ==
    /\ pc[s] = "blocked"
    /\ IF lockPath = 0
       THEN /\ result' = [result EXCEPT ![s] = "AlreadyStarting"]
            /\ pc' = [pc EXCEPT ![s] = "finally_close"]
            /\ UNCHANGED blocking_pid
       ELSE IF lockContent[lockPath] # 0 /\ PidExists(lockContent[lockPath])
       THEN /\ result' = [result EXCEPT ![s] = "AlreadyStarting"]
            /\ blocking_pid' = [blocking_pid EXCEPT ![s] = lockContent[lockPath]]
            /\ pc' = [pc EXCEPT ![s] = "finally_close"]
       ELSE /\ pc' = [pc EXCEPT ![s] = "stale"]
            /\ UNCHANGED <<result, blocking_pid>>
    /\ UNCHANGED <<fetchVars, auxVars, termVars, context_length, health_ok, hash, port, lock_fd, lockPath, lockContent, flockHolder,
                   record, aiSt, apiSt, apiPort, stopRet>>

\* the stale branch: os.close(lock_fd); lock_fd = None;
\* os.remove(start_lock_file) (OSError ignored); raise "stale ... removed"
RemoveStaleLock(s) ==
    /\ pc[s] = "stale"
    /\ lock_fd' = [lock_fd EXCEPT ![s] = 0]
    /\ lockPath' = 0
    /\ result' = [result EXCEPT ![s] = "StaleLockRemoved"]
    /\ pc' = [pc EXCEPT ![s] = "finally_close"]
    /\ UNCHANGED <<fetchVars, auxVars, termVars, context_length, health_ok, hash, port, blocking_pid, lockContent, flockHolder,
                   record, aiSt, apiSt, apiPort, stopRet>>

(***************************************************************************)
(* _start_lock: the finally block                                          *)
(***************************************************************************)
\* start() has returned or raised and the calling process ends: its
\* arguments are gone, what it returned stays on record in result
Exit(s) ==
    /\ pc' = [pc EXCEPT ![s] = "done"]
    /\ hash' = [hash EXCEPT ![s] = ""]
    /\ port' = [port EXCEPT ![s] = 0]
    /\ context_length' = [context_length EXCEPT ![s] = 0]

\* if lock_fd is not None: os.close(lock_fd), which drops the flock
FinallyClose(s) ==
    /\ pc[s] = "finally_close"
    /\ flockHolder' = [i \in Inodes |->
                         IF flockHolder[i] = s THEN 0 ELSE flockHolder[i]]
    /\ lock_fd' = [lock_fd EXCEPT ![s] = 0]
    /\ pc' = [pc EXCEPT ![s] = "finally_remove"]
    /\ UNCHANGED <<fetchVars, auxVars, termVars, context_length, health_ok, hash, port, result, blocking_pid, lockPath, lockContent,
                   record, aiSt, apiSt, apiPort, stopRet>>

\* a finally block that leaves the lock file in place
FinallyRemove_KeepFile(s) ==
    /\ pc[s] = "finally_remove"
    /\ Exit(s)
    /\ UNCHANGED <<fetchVars, auxVars, termVars, health_ok, lock_fd, result, blocking_pid, lockPath,
                   lockContent, flockHolder, record, aiSt, apiSt, apiPort, stopRet>>

\* if start_lock_file.exists(): os.remove(start_lock_file)
FinallyRemove(s) ==
    /\ pc[s] = "finally_remove"
    /\ lockPath' = 0
    /\ Exit(s)
    /\ UNCHANGED <<fetchVars, auxVars, termVars, health_ok, lock_fd, result, blocking_pid, lockContent,
                   flockHolder, record, aiSt, apiSt, apiPort, stopRet>>

(***************************************************************************)
(* start(): the body guarded by _start_lock                                *)
(***************************************************************************)
\* start() leaves the with block with value r (returned or raised)
Leave(s, r) ==
    /\ result' = [result EXCEPT ![s] = r]
    /\ pc' = [pc EXCEPT ![s] = "finally_close"]

\* connect_ex((host, port)) == 0 raises ServiceStartError out of start()
CheckPort(s) ==
    /\ pc[s] = "check_port"
    /\ IF PortListening(port[s])
       THEN Leave(s, "PortInUse")
       ELSE /\ pc' = [pc EXCEPT ![s] = "download"]
            /\ UNCHANGED result
    /\ UNCHANGED <<fetchVars, auxVars, termVars, context_length, health_ok, hash, port, lock_fd, blocking_pid, lockPath, lockContent,
                   flockHolder, record, aiSt, apiSt, apiPort, stopRet>>

\* asyncio.run(download_model_from_filecoin_async(hash)): a path, or None,
\* and None + "-projector" is a TypeError caught by the outer except
DownloadModel(s) ==
    /\ pc[s] = "download"
    /\ \E ok \in BOOLEAN :
          IF ok
          THEN /\ pc' = [pc EXCEPT ![s] = "check_running"]
               /\ UNCHANGED result
          ELSE Leave(s, "False")
    /\ UNCHANGED <<fetchVars, auxVars, termVars, context_length, health_ok, hash, port, lock_fd, blocking_pid, lockPath, lockContent,
                   flockHolder, record, aiSt, apiSt, apiPort, stopRet>>

\* model_running = get_running_model(): same hash, return True;
\* another hash, stop() and go on; no record, go on
CheckRunningModel(s) ==
    /\ pc[s] = "check_running"
    /\ IF record # NoRecord /\ record.hash = hash[s]
       THEN /\ Leave(s, "True")
            /\ UNCHANGED <<record, aiSt, apiSt>>
       ELSE /\ Stop
            /\ pc' = [pc EXCEPT ![s] = "metadata"]
            /\ UNCHANGED result
    /\ UNCHANGED <<fetchVars, auxVars, termVars, context_length, health_ok, hash, port, lock_fd, blocking_pid, lockPath, lockContent,
                   flockHolder, apiPort, stopRet>>

\* the <hash>.json metadata: read from disk or fetched; a failed fetch
\* gives None and None.get(...) is an AttributeError caught by the outer
\* except
LoadMetadata(s) ==
    /\ pc[s] = "metadata"
    /\ \E ok \in BOOLEAN :
          IF ok
          THEN /\ pc' = [pc EXCEPT ![s] = "spawn_ai"]
               /\ UNCHANGED result
          ELSE Leave(s, "False")
    /\ UNCHANGED <<fetchVars, auxVars, termVars, context_length, health_ok, hash, port, lock_fd, blocking_pid, lockPath, lockContent,
                   flockHolder, record, aiSt, apiSt, apiPort, stopRet>>

\* ai_process = subprocess.Popen(running_ai_command, preexec_fn=os.setsid)
SpawnAi(s) ==
    /\ pc[s] = "spawn_ai"
    /\ \E ok \in BOOLEAN :
          IF ok
          THEN /\ aiSt' = [aiSt EXCEPT ![s] = "running"]
               /\ pc' = [pc EXCEPT ![s] = "health_ai"]
               /\ UNCHANGED result
          ELSE /\ Leave(s, "False")
               /\ UNCHANGED aiSt
    /\ UNCHANGED <<fetchVars, auxVars, termVars, context_length, health_ok, hash, port, lock_fd, blocking_pid, lockPath, lockContent,
                   flockHolder, record, apiSt, apiPort, stopRet>>

\* wait_for_health(port): can only succeed while something answers on the
\* port, and may fail (time out) in any case
WaitForHealth(answers) == IF answers THEN BOOLEAN ELSE {FALSE}

\* if not wait_for_health(local_ai_port): ai_process.terminate(); return False
HealthAi(s) ==
    /\ pc[s] = "health_ai"
    /\ \E ok \in WaitForHealth(aiSt[s] = "running") :
          IF ok
          THEN /\ pc' = [pc EXCEPT ![s] = "spawn_api"]
               /\ health_ok' = [health_ok EXCEPT ![s] = @ \cup {"ai"}]
               /\ UNCHANGED <<result, aiSt>>
          ELSE /\ aiSt' = [aiSt EXCEPT ![s] = PopenTerminate(@)]
               /\ Leave(s, "False")
               /\ UNCHANGED health_ok
    /\ UNCHANGED <<fetchVars, auxVars, termVars, context_length, hash, port, lock_fd, blocking_pid, lockPath, lockContent,
                   flockHolder, record, apiSt, apiPort, stopRet>>

\* apis_process = subprocess.Popen(uvicorn ... --port port); on an
\* exception ai_process.terminate(); return False.  A uvicorn that finds
\* the port bound exits by itself.
SpawnApi(s) ==
    /\ pc[s] = "spawn_api"
    /\ \E ok \in BOOLEAN :
          IF ok
          THEN /\ apiSt' = [apiSt EXCEPT ![s] =
                              IF PortListening(port[s]) THEN "exited"
                              ELSE "running"]
               /\ apiPort' = [apiPort EXCEPT ![s] = port[s]]
               /\ pc' = [pc EXCEPT ![s] = "health_api"]
               /\ UNCHANGED <<result, aiSt>>
          ELSE /\ aiSt' = [aiSt EXCEPT ![s] = PopenTerminate(@)]
               /\ Leave(s, "False")
               /\ UNCHANGED <<apiSt, apiPort>>
    /\ UNCHANGED <<fetchVars, auxVars, termVars, context_length, health_ok, hash, port, lock_fd, blocking_pid, lockPath, lockContent,
                   flockHolder, record, stopRet>>

\* an API health probe whose failure is logged but does not end start()
HealthApi_NoReturn(s) ==
    /\ pc[s] = "health_api"
    /\ \E ok \in WaitForHealth(\E c \in Procs :
                                  apiSt[c] = "running" /\ apiPort[c] = port[s]) :
          health_ok' = [health_ok EXCEPT ![s] =
                          IF ok THEN @ \cup {"api"} ELSE @]
    /\ pc' = [pc EXCEPT ![s] = "dump"]
    /\ UNCHANGED <<fetchVars, auxVars, termVars, context_length, hash, port, lock_fd, result, blocking_pid, lockPath,
                   lockContent, flockHolder, record, aiSt, apiSt, apiPort,
                   stopRet>>

\* if not wait_for_health(port): terminate both; return False
HealthApi(s) ==
    /\ pc[s] = "health_api"
    /\ \E ok \in WaitForHealth(\E c \in Procs :
                                  apiSt[c] = "running" /\ apiPort[c] = port[s]) :
          IF ok
          THEN /\ pc' = [pc EXCEPT ![s] = "dump"]
               /\ health_ok' = [health_ok EXCEPT ![s] = @ \cup {"api"}]
               /\ UNCHANGED <<result, aiSt, apiSt>>
          ELSE /\ aiSt' = [aiSt EXCEPT ![s] = PopenTerminate(@)]
               /\ apiSt' = [apiSt EXCEPT ![s] = PopenTerminate(@)]
               /\ Leave(s, "False")
               /\ UNCHANGED health_ok
    /\ UNCHANGED <<fetchVars, auxVars, termVars, context_length, hash, port, lock_fd, blocking_pid, lockPath, lockContent,
                   flockHolder, record, apiPort, stopRet>>

\* the SupervisionRecord start() builds
ServiceMetadata(s) ==
    [hash |-> hash[s], app_port |-> port[s],
     context_length |-> context_length[s], pid |-> s, app_pid |-> s]

\* _dump_running_service(service_metadata): the file is written, or the
\* write fails, which is logged and swallowed; start() goes on either way
DumpRunningService(s) ==
    /\ pc[s] = "dump"
    /\ \E written \in BOOLEAN :
          record' = IF written THEN ServiceMetadata(s) ELSE record
    /\ pc' = [pc EXCEPT ![s] = "post_update"]
    /\ UNCHANGED <<fetchVars, auxVars, termVars, context_length, health_ok, hash, port, lock_fd, result, blocking_pid, lockPath,
                   lockContent, flockHolder, aiSt, apiSt, apiPort, stopRet>>

\* a POST failure that is only logged
PostUpdate_NoStop(s) ==
    /\ pc[s] = "post_update"
    /\ \E ok \in BOOLEAN : Leave(s, IF ok THEN "True" ELSE "False")
    /\ UNCHANGED <<fetchVars, auxVars, termVars, context_length, health_ok, hash, port, lock_fd, blocking_pid, lockPath, lockContent,
                   flockHolder, record, aiSt, apiSt, apiPort, stopRet>>

\* requests.post(/update): return True; on RequestException stop() and
\* return False
PostUpdate(s) ==
    /\ pc[s] = "post_update"
    /\ \E ok \in BOOLEAN :
          IF ok
          THEN /\ Leave(s, "True")
               /\ UNCHANGED <<record, aiSt, apiSt>>
          ELSE /\ Stop
               /\ Leave(s, "False")
    /\ UNCHANGED <<fetchVars, auxVars, termVars, context_length, health_ok, hash, port, lock_fd, blocking_pid, lockPath, lockContent,
                   flockHolder, apiPort, stopRet>>

(***************************************************************************)
(* The rest of the system                                                  *)
(***************************************************************************)
\* LocalAIManager.stop() called on its own (the stop command)
StopCall ==
    /\ stopRet' = IF record = NoRecord THEN "False"
                  ELSE IF StopReturns(record) THEN "True" ELSE "False"
    /\ Stop
    /\ UNCHANGED <<fetchVars, auxVars, termVars, context_length, health_ok, pc, hash, port, lock_fd, result, blocking_pid, lockPath,
                   lockContent, flockHolder, apiPort>>

\* a child that was sent SIGTERM exits
ChildExits(s) ==
    /\ \/ /\ aiSt[s] = "terminating"
          /\ aiSt' = [aiSt EXCEPT ![s] = "exited"]
          /\ UNCHANGED apiSt
       \/ /\ apiSt[s] = "terminating"
          /\ apiSt' = [apiSt EXCEPT ![s] = "exited"]
          /\ UNCHANGED aiSt
    /\ UNCHANGED <<fetchVars, auxVars, termVars, context_length, health_ok, pc, hash, port, lock_fd, result, blocking_pid, lockPath,
                   lockContent, flockHolder, record, apiPort, stopRet>>

\* the guarded body as one step: it never touches the lock file, its
\* descriptor or the flock, and ends with any of start()'s outcomes
GuardedBody(s) ==
    /\ pc[s] = "check_port"
    /\ \E r \in {"True", "False", "PortInUse"} : Leave(s, r)
    /\ UNCHANGED <<fetchVars, auxVars, termVars, context_length, health_ok, hash, port, lock_fd, blocking_pid, lockPath, lockContent,
                   flockHolder, record, aiSt, apiSt, apiPort, stopRet>>

\* no start() call is in progress
NoStartInProgress == \A q \in Procs : pc[q] \in {"idle", "done"}

StartBodyStep(s) ==
    \/ CheckPort(s)
    \/ DownloadModel(s)
    \/ CheckRunningModel(s)
    \/ LoadMetadata(s)
    \/ SpawnAi(s)
    \/ HealthAi(s)
    \/ SpawnApi(s)
    \/ HealthApi(s)
    \/ DumpRunningService(s)
    \/ PostUpdate(s)

(***************************************************************************)
(* Spec: start() calls made one after the other, each by a process of its  *)
(* own, with stop() calls and exits of signalled children at any point.    *)
(***************************************************************************)
Next ==
    \/ \E s \in Procs, h \in Hashes, p \in Ports :
          NoStartInProgress /\ CallStart(s, h, p)
    \/ \E s \in Procs : OpenLockFile(s)
    \/ \E s \in Procs : TryFlock(s)
    \/ \E s \in Procs : WritePid(s)
    \/ \E s \in Procs : StartBodyStep(s)
    \/ \E s \in Procs : FinallyClose(s)
    \/ \E s \in Procs : FinallyRemove(s)
    \/ \E s \in Procs : ChildExits(s)
    \/ StopCall

Spec == Init /\ [][Next]_vars

(***************************************************************************)
(* SpecLock: any number of processes inside _start_lock at the same time,  *)
(* every system call of the context manager a step of its own.  All of    *)
(* them ask for the same service, start("QmA", 11434).                     *)
(***************************************************************************)
NextLock ==
    \/ \E s \in Procs : CallStart(s, "QmA", 11434)
    \/ \E s \in Procs : OpenLockFile(s)
    \/ \E s \in Procs : TryFlock(s)
    \/ \E s \in Procs : WritePid(s)
    \/ \E s \in Procs : ReadBlockingPid(s)
    \/ \E s \in Procs : RemoveStaleLock(s)
    \/ \E s \in Procs : GuardedBody(s)
    \/ \E s \in Procs : FinallyClose(s)
    \/ \E s \in Procs : FinallyRemove(s)

SpecLock == Init /\ [][NextLock]_vars

(***************************************************************************)
(* restart()                                                               *)
(***************************************************************************)
\* the context_length values start() is called with
Contexts == {DefaultContextLength, 4096}

\* a process is launched and calls restart(): without a running-service
\* file it returns False; otherwise it loads the file and keeps hash,
\* app_port and context_length
RestartCall(s) ==
    /\ pc[s] = "idle"
    /\ \A q \in Procs : q < s => pc[q] # "idle"
    /\ IF record = NoRecord
       THEN /\ pc' = [pc EXCEPT ![s] = "done"]
            /\ result' = [result EXCEPT ![s] = "False"]
            /\ UNCHANGED <<hash, port, context_length>>
       ELSE /\ hash' = [hash EXCEPT ![s] = record.hash]
            /\ port' = [port EXCEPT ![s] = record.app_port]
            /\ context_length' =
                  [context_length EXCEPT ![s] = record.context_length]
            /\ pc' = [pc EXCEPT ![s] = "restart_stop"]
            /\ UNCHANGED result
    /\ UNCHANGED <<fetchVars, auxVars, termVars, health_ok, lock_fd, blocking_pid, lockPath, lockContent,
                   flockHolder, record, aiSt, apiSt, apiPort, stopRet>>

\* a restart() that goes on to start() without stopping the service
RestartStop_NoStop(s) ==
    /\ pc[s] = "restart_stop"
    /\ pc' = [pc EXCEPT ![s] = "open"]
    /\ UNCHANGED <<record, aiSt, apiSt>>
    /\ UNCHANGED <<fetchVars, auxVars, termVars, context_length, health_ok, hash, port, lock_fd, result, blocking_pid,
                   lockPath, lockContent, flockHolder, apiPort, stopRet>>

\* self.stop(), its return value dropped, then self.start(hash, port,
\* context_length=context_length) is entered
RestartStop(s) ==
    /\ pc[s] = "restart_stop"
    /\ Stop
    /\ pc' = [pc EXCEPT ![s] = "open"]
    /\ UNCHANGED <<fetchVars, auxVars, termVars, context_length, health_ok, hash, port, lock_fd, result, blocking_pid,
                   lockPath, lockContent, flockHolder, apiPort, stopRet>>

\* what restart() returns when the start() it called has left with
\* result r: an exception of start() is caught and gives False
RestartReturns(r) == r = "True"

(***************************************************************************)
(* SpecRestart: one start() with any arguments, made by process 1, then    *)
(* restart() calls, each by a process of its own, with stop() calls and    *)
(* exits of signalled children at any point.                               *)
(***************************************************************************)
NextRestart ==
    \/ \E h \in Hashes, p \in Ports, c \in Contexts : CallStartWith(1, h, p, c)
    \/ \E s \in Procs : NoStartInProgress /\ RestartCall(s)
    \/ \E s \in Procs : RestartStop(s)
    \/ \E s \in Procs : OpenLockFile(s)
    \/ \E s \in Procs : TryFlock(s)
    \/ \E s \in Procs : WritePid(s)
    \/ \E s \in Procs : StartBodyStep(s)
    \/ \E s \in Procs : FinallyClose(s)
    \/ \E s \in Procs : FinallyRemove(s)
    \/ \E s \in Procs : ChildExits(s)
    \/ StopCall

SpecRestart == Init /\ [][NextRestart]_vars

(***************************************************************************)
(* stop() step by step.  terminate_process_group(pid, name) is run for the *)
(* backend ("ai") and then for the API ("api"); tphase is its position:    *)
(*   "check"       the status tests before any signal                      *)
(*   "poll"        SIGTERM sent, a liveness test of the 15 s polling loop  *)
(*   "sleep"       time.sleep(poll_interval) between two tests             *)
(*   "force_wait"  SIGKILL sent, waiting up to force_timeout               *)
(* A process that was sent SIGKILL and has not died yet is "killing".      *)
(***************************************************************************)
MaxStopCalls == 3

Targets == {"ai", "api"}

\* the status of the process stop() is dealing with
TargetStatus(t) ==
    IF t = "ai" THEN aiSt[service_info.pid] ELSE apiSt[service_info.app_pid]

SetTargetStatus(t, st) ==
    IF t = "ai"
    THEN /\ aiSt' = [aiSt EXCEPT ![service_info.pid] = st]
         /\ UNCHANGED apiSt
    ELSE /\ apiSt' = [apiSt EXCEPT ![service_info.app_pid] = st]
         /\ UNCHANGED aiSt

\* psutil.pid_exists: true for a zombie as well
PsutilPidExists(st) == st \notin {"none", "exited"}

\* os.killpg(pgid, SIGTERM) / os.killpg(pgid, SIGKILL) as the process sees it
AfterSigterm(st) == IF st = "running" THEN "terminating" ELSE st

AfterSigkill(st) == IF st \in {"running", "terminating", "stopped"}
                    THEN "killing" ELSE st

\* terminate_process_group returns ok for target t: the next target, or the
\* rest of stop()
TpgReturn(t, ok) ==
    /\ IF t = "ai"
       THEN /\ ai_stopped' = ok
            /\ spc' = "api"
            /\ tphase' = "check"
            /\ UNCHANGED api_stopped
       ELSE /\ api_stopped' = ok
            /\ spc' = "finish"
            /\ tphase' = "none"
            /\ UNCHANGED ai_stopped

\* a stop() that reports success when there is nothing to stop
StopBegin_NoRecordTrue ==
    /\ spc \in {"idle", "done"}
    /\ stop_calls < MaxStopCalls
    /\ stop_calls' = stop_calls + 1
    /\ sigs' = [t \in Targets |-> {}]
    /\ dead_at_call' = IF record = NoRecord THEN {}
                       ELSE {t \in Targets :
                               ~Alive(IF t = "ai" THEN aiSt[record.pid]
                                                  ELSE apiSt[record.app_pid])}
    /\ IF record = NoRecord
       THEN /\ spc' = "done"
            /\ stopRet' = "True"
            /\ service_info' = NoRecord
            /\ UNCHANGED tphase
       ELSE /\ spc' = "ai"
            /\ tphase' = "check"
            /\ service_info' = record
            /\ stopRet' = "none"
    /\ UNCHANGED <<ai_stopped, api_stopped, record, aiSt, apiSt>>
    /\ UNCHANGED <<fetchVars, auxVars, context_length, health_ok, pc, hash, port, lock_fd, result, blocking_pid, lockPath,
                   lockContent, flockHolder, apiPort>>

\* stop() is called: without a running-service file it returns False at
\* once, otherwise it loads the file
StopBegin ==
    /\ spc \in {"idle", "done"}
    /\ stop_calls < MaxStopCalls
    /\ stop_calls' = stop_calls + 1
    /\ sigs' = [t \in Targets |-> {}]
    /\ dead_at_call' = IF record = NoRecord THEN {}
                       ELSE {t \in Targets :
                               ~Alive(IF t = "ai" THEN aiSt[record.pid]
                                                  ELSE apiSt[record.app_pid])}
    /\ IF record = NoRecord
       THEN /\ spc' = "done"
            /\ stopRet' = "False"
            /\ service_info' = NoRecord
            /\ UNCHANGED tphase
       ELSE /\ spc' = "ai"
            /\ tphase' = "check"
            /\ service_info' = record
            /\ stopRet' = "none"
    /\ UNCHANGED <<ai_stopped, api_stopped, record, aiSt, apiSt>>
    /\ UNCHANGED <<fetchVars, auxVars, context_length, health_ok, pc, hash, port, lock_fd, result, blocking_pid, lockPath,
                   lockContent, flockHolder, apiPort>>

\* lines 446-470 and the graceful signal: a missing PID, a zombie and a
\* dead/stopped process return True without a signal; otherwise SIGTERM
\* goes to the process group
TpgCheck(t) ==
    /\ spc = t
    /\ tphase = "check"
    /\ IF TargetStatus(t) \in {"none", "exited", "zombie", "stopped"}
       THEN /\ TpgReturn(t, TRUE)
            /\ UNCHANGED <<sigs, aiSt, apiSt>>
       ELSE /\ sigs' = [sigs EXCEPT ![t] = @ \cup {"SIGTERM"}]
            /\ SetTargetStatus(t, AfterSigterm(TargetStatus(t)))
            /\ tphase' = "poll"
            /\ UNCHANGED <<spc, ai_stopped, api_stopped>>
    /\ UNCHANGED <<service_info, stop_calls, dead_at_call, record, stopRet>>
    /\ UNCHANGED <<fetchVars, auxVars, context_length, health_ok, pc, hash, port, lock_fd, result, blocking_pid, lockPath,
                   lockContent, flockHolder, apiPort>>

\* one test of the polling loop: gone or zombie is success, else sleep
TpgPoll(t) ==
    /\ spc = t
    /\ tphase = "poll"
    /\ IF TargetStatus(t) \in {"none", "exited", "zombie"}
       THEN TpgReturn(t, TRUE)
       ELSE /\ tphase' = "sleep"
            /\ UNCHANGED <<spc, ai_stopped, api_stopped>>
    /\ UNCHANGED <<service_info, stop_calls, dead_at_call, record, stopRet, sigs, aiSt, apiSt>>
    /\ UNCHANGED <<fetchVars, auxVars, context_length, health_ok, pc, hash, port, lock_fd, result, blocking_pid, lockPath,
                   lockContent, flockHolder, apiPort>>

\* "if not success and psutil.pid_exists(pid)", reached with success still
\* False: SIGKILL to the process group; with the PID gone the function
\* returns success, which is False
TpgForce(t) ==
    IF PsutilPidExists(TargetStatus(t))
    THEN /\ sigs' = [sigs EXCEPT ![t] = @ \cup {"SIGKILL"}]
         /\ SetTargetStatus(t, AfterSigkill(TargetStatus(t)))
         /\ tphase' = "force_wait"
         /\ UNCHANGED <<spc, ai_stopped, api_stopped>>
    ELSE /\ TpgReturn(t, FALSE)
         /\ UNCHANGED <<sigs, aiSt, apiSt>>

\* the sleep is over and "while time.time() - start_time < timeout" is
\* tested: another round, or the window is over and the code goes straight
\* to the force-termination test
TpgSleepEnd(t) ==
    /\ spc = t
    /\ tphase = "sleep"
    /\ \E timed_out \in BOOLEAN :
          IF timed_out
          THEN TpgForce(t)
          ELSE /\ tphase' = "poll"
               /\ UNCHANGED <<spc, ai_stopped, api_stopped, sigs, aiSt, apiSt>>
    /\ UNCHANGED <<service_info, stop_calls, dead_at_call, record, stopRet>>
    /\ UNCHANGED <<fetchVars, auxVars, context_length, health_ok, pc, hash, port, lock_fd, result, blocking_pid, lockPath,
                   lockContent, flockHolder, apiPort>>

\* the wait after SIGKILL is over: the PID is gone (True), or
\* force_timeout has passed and the final check finds a zombie (True) or a
\* process that is still there (False)
TpgForceEnd(t) ==
    /\ spc = t
    /\ tphase = "force_wait"
    /\ TpgReturn(t, TargetStatus(t) \in {"none", "exited", "zombie"})
    /\ UNCHANGED <<service_info, stop_calls, dead_at_call, record, stopRet, sigs, aiSt, apiSt>>
    /\ UNCHANGED <<fetchVars, auxVars, context_length, health_ok, pc, hash, port, lock_fd, result, blocking_pid, lockPath,
                   lockContent, flockHolder, apiPort>>

\* a stop() that keeps the running-service file when a termination failed
StopFinish_KeepRecordOnFailure ==
    /\ spc = "finish"
    /\ record' = IF ai_stopped /\ api_stopped THEN NoRecord ELSE record
    /\ stopRet' = IF ai_stopped /\ api_stopped THEN "True" ELSE "False"
    /\ spc' = "done"
    /\ UNCHANGED <<tphase, service_info, ai_stopped, api_stopped, sigs,
                   stop_calls, dead_at_call, aiSt, apiSt>>
    /\ UNCHANGED <<fetchVars, auxVars, context_length, health_ok, pc, hash, port, lock_fd, result, blocking_pid, lockPath,
                   lockContent, flockHolder, apiPort>>

\* the rest of stop(): the port re-checks only log; the running-service
\* file is removed; success = ai_stopped and api_stopped and pickle_removed
StopFinish ==
    /\ spc = "finish"
    /\ record' = NoRecord
    /\ stopRet' = IF ai_stopped /\ api_stopped THEN "True" ELSE "False"
    /\ spc' = "done"
    /\ UNCHANGED <<tphase, service_info, ai_stopped, api_stopped, sigs,
                   stop_calls, dead_at_call, aiSt, apiSt>>
    /\ UNCHANGED <<fetchVars, auxVars, context_length, health_ok, pc, hash, port, lock_fd, result, blocking_pid, lockPath,
                   lockContent, flockHolder, apiPort>>

\* the recorded processes seen from outside: a live one dies (its own exit,
\* a signal taking effect, a kill from elsewhere) and stays a zombie until
\* it is reaped; a running one is suspended by SIGSTOP
ChildDies(t) ==
    /\ \/ /\ t = "ai"
          /\ \E s \in Procs :
                /\ Alive(aiSt[s])
                /\ aiSt' = [aiSt EXCEPT ![s] = "zombie"]
          /\ UNCHANGED apiSt
       \/ /\ t = "api"
          /\ \E s \in Procs :
                /\ Alive(apiSt[s])
                /\ apiSt' = [apiSt EXCEPT ![s] = "zombie"]
          /\ UNCHANGED aiSt
    /\ UNCHANGED <<termVars, record, stopRet>>
    /\ UNCHANGED <<fetchVars, auxVars, context_length, health_ok, pc, hash, port, lock_fd, result, blocking_pid, lockPath,
                   lockContent, flockHolder, apiPort>>

ChildReaped(t) ==
    /\ \/ /\ t = "ai"
          /\ \E s \in Procs :
                /\ aiSt[s] = "zombie"
                /\ aiSt' = [aiSt EXCEPT ![s] = "exited"]
          /\ UNCHANGED apiSt
       \/ /\ t = "api"
          /\ \E s \in Procs :
                /\ apiSt[s] = "zombie"
                /\ apiSt' = [apiSt EXCEPT ![s] = "exited"]
          /\ UNCHANGED aiSt
    /\ UNCHANGED <<termVars, record, stopRet>>
    /\ UNCHANGED <<fetchVars, auxVars, context_length, health_ok, pc, hash, port, lock_fd, result, blocking_pid, lockPath,
                   lockContent, flockHolder, apiPort>>

ChildSuspended(t) ==
    /\ \/ /\ t = "ai"
          /\ \E s \in Procs :
                /\ aiSt[s] = "running"
                /\ aiSt' = [aiSt EXCEPT ![s] = "stopped"]
          /\ UNCHANGED apiSt
       \/ /\ t = "api"
          /\ \E s \in Procs :
                /\ apiSt[s] = "running"
                /\ apiSt' = [apiSt EXCEPT ![s] = "stopped"]
          /\ UNCHANGED aiSt
    /\ UNCHANGED <<termVars, record, stopRet>>
    /\ UNCHANGED <<fetchVars, auxVars, context_length, health_ok, pc, hash, port, lock_fd, result, blocking_pid, lockPath,
                   lockContent, flockHolder, apiPort>>

\* start("QmA", 8080) run by process 1 has returned True: the state Spec
\* is in after its first successful start
ServiceUp ==
    /\ pc = [s \in Procs |-> IF s = 1 THEN "done" ELSE "idle"]
    /\ hash = [s \in Procs |-> ""]
    /\ port = [s \in Procs |-> 0]
    /\ lock_fd = [s \in Procs |-> 0]
    /\ result = [s \in Procs |-> IF s = 1 THEN "True" ELSE "none"]
    /\ blocking_pid = [s \in Procs |-> 0]
    /\ health_ok = [s \in Procs |-> IF s = 1 THEN {"ai", "api"} ELSE {}]
    /\ lockPath = 0
    /\ lockContent = [i \in Inodes |-> IF i = 1 THEN 1 ELSE 0]
    /\ flockHolder = [i \in Inodes |-> 0]
    /\ record = [hash |-> "QmA", app_port |-> 8080,
                 context_length |-> DefaultContextLength, pid |-> 1,
                 app_pid |-> 1]
    /\ aiSt = [s \in Procs |-> IF s = 1 THEN "running" ELSE "none"]
    /\ apiSt = [s \in Procs |-> IF s = 1 THEN "running" ELSE "none"]
    /\ apiPort = [s \in Procs |-> IF s = 1 THEN 8080 ELSE 0]
    /\ stopRet = "none"
    /\ context_length = [s \in Procs |-> 0]
    /\ spc = "idle"
    /\ tphase = "none"
    /\ service_info = NoRecord
    /\ ai_stopped = FALSE
    /\ api_stopped = FALSE
    /\ sigs = [t \in Targets |-> {}]
    /\ stop_calls = 0
    /\ dead_at_call = {}

\* get_running_model(): the hash in the running-service file, "" for None
get_running_model == IF record = NoRecord THEN "" ELSE record.hash

(***************************************************************************)
(* SpecStop: a started service, stop() calls one after the other, and the  *)
(* two recorded processes dying, being reaped or being suspended at any    *)
(* point.                                                                  *)
(***************************************************************************)
InitStop == ServiceUp /\ FetchAtRest /\ AuxIdle

NextStop ==
    \/ StopBegin
    \/ \E t \in Targets : TpgCheck(t)
    \/ \E t \in Targets : TpgPoll(t)
    \/ \E t \in Targets : TpgSleepEnd(t)
    \/ \E t \in Targets : TpgForceEnd(t)
    \/ StopFinish
    \/ \E t \in Targets : ChildDies(t)
    \/ \E t \in Targets : ChildReaped(t)
    \/ \E t \in Targets : ChildSuspended(t)

SpecStop == InitStop /\ [][NextStop]_vars

(***************************************************************************)
(* Claims about the supervisor                                             *)
(***************************************************************************)
\* the process is inside the body guarded by _start_lock
InGuardedBody(s) ==
    pc[s] \in {"check_port", "download", "check_running", "metadata",
               "spawn_ai", "health_ai", "spawn_api", "health_api", "dump",
               "post_update"}

\* start() has returned or raised and is unwinding the with block
Returning(s) == pc[s] \in {"finally_close", "finally_remove"}

StartFailed(s) ==
    result[s] \in {"False", "PortInUse", "AlreadyStarting", "StaleLockRemoved"}

\* the service (h, p) is on record and both of its processes run
ServiceRunning(h, p) ==
    /\ record # NoRecord
    /\ record.hash = h
    /\ record.app_port = p
    /\ aiSt[record.pid] = "running"
    /\ apiSt[record.app_pid] = "running"

\* C1: at any instant at most one process is inside the body guarded by
\* _start_lock, whatever the contenders that failed to get the lock do.
C1_MutualExclusion ==
    Cardinality({s \in Procs : InGuardedBody(s)}) <= 1

\* C2: a start() attempt that is blocked by a live process holding the
\* lock inside the guarded body fails with the AlreadyStarting error that
\* names the holder's PID, never with the stale-lock outcome.
C2_BlockedNamesHolder ==
    [][\A q \in Procs :
         LET holder == flockHolder[lock_fd[q]] IN
         (/\ pc[q] = "blocked"
          /\ pc'[q] # "blocked"
          /\ holder # 0
          /\ InGuardedBody(holder))
         => (/\ result'[q] = "AlreadyStarting"
             /\ blocking_pid'[q] = holder)]_vars

\* C3: start(H, p) called while the service (H, p) started by an earlier
\* call is still running returns True.
C3_SameHashStartReturnsTrue ==
    \A s \in Procs :
        (Returning(s) /\ ServiceRunning(hash[s], port[s]))
        => result[s] = "True"

\* C4: when start() has returned False, no child process it spawned is
\* left running without even a termination signal.
C4_FailedStartLeavesNoChild ==
    \A s \in Procs :
        (pc[s] = "done" /\ result[s] = "False")
        => (aiSt[s] # "running" /\ apiSt[s] # "running")

\* C7: start(H2, p) called while a record for another hash H1 exists goes
\* on to stop the H1 service for every p: it is not turned away by the
\* port check when p is the port the API of H1 listens on.
C7_OtherHashStartNotRefused ==
    \A s \in Procs :
        (/\ Returning(s)
         /\ record # NoRecord
         /\ record.hash # hash[s]
         /\ record.app_port = port[s]
         /\ Alive(apiSt[record.app_pid]))
        => result[s] # "PortInUse"

\* C8: the SupervisionRecord of a start() call is on disk only once the
\* backend health probe and the API health probe of that call have both
\* succeeded.
C8_RecordOnlyAfterBothHealthy ==
    \A s \in Procs : record.pid = s => health_ok[s] = {"ai", "api"}

C8_Witness ==
    \E s \in Procs :
        /\ record.pid = s
        /\ pc[s] = "post_update"
        /\ health_ok[s] = {"ai", "api"}

C10_NoLockFileAfterStart ==
    (NoStartInProgress /\ \E s \in Procs : pc[s] = "done") => lockPath = 0

\* all calls are over: one held the lock and returned, one was turned away
C10_Witness ==
    /\ NoStartInProgress
    /\ \E s, q \in Procs :
          /\ pc[s] = "done" /\ result[s] \in {"True", "False", "PortInUse"}
          /\ pc[q] = "done"
          /\ result[q] \in {"AlreadyStarting", "StaleLockRemoved"}
    /\ lockPath = 0

\* the stop() call has returned
StopReturned == spc = "done"

\* C11: stop() returns true only if, when it returns, both recorded
\* processes are dead and the record file is removed.
C11_StopTrueOnlyIfBothDead ==
    (StopReturned /\ stopRet = "True") =>
        /\ record = NoRecord
        /\ ~Alive(aiSt[service_info.pid])
        /\ ~Alive(apiSt[service_info.app_pid])

\* the recorded process of target t was missing or a zombie when stop()
\* was called
FoundDead(t) == t \in dead_at_call

\* C12: a stop() that finds a record of which one or both PIDs are already
\* missing or zombie returns true, removes the record and leaves neither
\* recorded process alive.
C12_StopToleratesDeadPids ==
    (StopReturned /\ service_info # NoRecord /\ \E t \in Targets : FoundDead(t))
        => /\ stopRet = "True"
           /\ record = NoRecord
           /\ \A t \in Targets : ~Alive(TargetStatus(t))

\* C13: stop() without a record returns false and changes nothing, sending
\* no signal; so the stop() that follows a successful stop() returns false.
C13_StopWithoutRecordIsNoOp ==
    [][stop_calls' = stop_calls + 1 =>
          /\ record = NoRecord =>
                /\ stopRet' = "False"
                /\ spc' = "done"
                /\ \A t \in Targets : sigs'[t] = {}
                /\ UNCHANGED <<record, aiSt, apiSt>>
          /\ stopRet = "True" => stopRet' = "False"]_vars

C13_Witness ==
    /\ stop_calls = 2
    /\ StopReturned
    /\ stopRet = "False"
    /\ ai_stopped /\ api_stopped

\* C14: start() reports its outcome as a boolean whatever the input and the
\* state: it returns True or False and never raises.
C14_StartReturnsBoolean ==
    \A s \in Procs : pc[s] = "done" => result[s] \in {"True", "False"}

\* C16: get_running_model() returns a hash only if the recorded backend and
\* API processes are both alive.
C16_RunningModelOnlyIfAlive ==
    get_running_model # "" =>
        /\ Alive(aiSt[record.pid])
        /\ Alive(apiSt[record.app_pid])

\* C17: SIGKILL is sent to a PID only after SIGTERM was sent to it and the
\* process is still alive and not a zombie when the graceful window ends; a
\* process that has exited or is a zombie at the end of the window gets no
\* SIGKILL and is reported as terminated.
C17_KillOnlyAfterGracefulWindow ==
    [][\A t \in Targets :
          /\ ("SIGKILL" \in sigs'[t] /\ "SIGKILL" \notin sigs[t]) =>
                /\ "SIGTERM" \in sigs[t]
                /\ Alive(TargetStatus(t))
          /\ (spc = t /\ tphase = "sleep" /\ tphase' # "poll"
                /\ ~Alive(TargetStatus(t))) =>
                /\ "SIGKILL" \notin sigs'[t]
                /\ IF t = "ai" THEN ai_stopped' ELSE api_stopped']_vars

\* C15: restart() with a record reads hash, app_port and context_length
\* from it, runs stop() to completion and only then enters start() with
\* exactly those values; restart() without a record returns false and
\* neither stops nor starts anything.
C15_RestartStopsThenStartsSame ==
    [][\A s \in Procs :
          /\ (pc[s] = "idle" /\ pc'[s] = "restart_stop") =>
                /\ record # NoRecord
                /\ hash'[s] = record.hash
                /\ port'[s] = record.app_port
                /\ context_length'[s] = record.context_length
          /\ (pc[s] = "restart_stop" /\ pc'[s] # "restart_stop") =>
                /\ pc'[s] = "open"
                /\ record' = NoRecord
                /\ \A c \in Procs : aiSt'[c] # "running" /\ apiSt'[c] # "running"
                /\ hash'[s] = hash[s]
                /\ port'[s] = port[s]
                /\ context_length'[s] = context_length[s]
          /\ (pc[s] = "idle" /\ pc'[s] = "done") =>
                /\ record = NoRecord
                /\ result'[s] = "False"
                /\ UNCHANGED <<record, aiSt, apiSt, lockPath, stopRet>>]_vars

\* a restart() of a service started with a non-default context_length has
\* returned True: the new record carries the values of the old one
C15_Witness ==
    /\ pc[2] = "done"
    /\ RestartReturns(result[2])
    /\ record.pid = 2
    /\ record.context_length # DefaultContextLength

(***************************************************************************)
(* The command line of the backend: the family rule of start() and         *)
(* _build_ai_command.  A folder name is a sequence of characters, so that  *)
(* lower() and the substring test "in" are computed as Python does.        *)
(***************************************************************************)
\* str.lower() on the characters that occur in FolderNames
LowerChar(c) ==
    CASE c = "G" -> "g"
      [] c = "Q" -> "q"
      [] c = "L" -> "l"
      [] c = "B" -> "b"
      [] OTHER -> c

Lower(name) == [i \in DOMAIN name |-> LowerChar(name[i])]

\* needle in hay
Contains(hay, needle) ==
    \E i \in 0..(Len(hay) - Len(needle)) :
        SubSeq(hay, i + 1, i + Len(needle)) = needle

gemma == <<"g", "e", "m", "m", "a">>
qwen25 == <<"q", "w", "e", "n", "2", "5">>
qwen3 == <<"q", "w", "e", "n", "3">>
llama == <<"l", "l", "a", "m", "a">>

\* 'gemma-2b', 'Gemma-3', 'qwen25-7b', 'Qwen3-8B', 'Llama-3', 'llama-gemma',
\* 'qwen3-qwen25', 'llama-qwen3', 'mistral', 'qwen2.5', ''
GemmaTwoB == <<"g", "e", "m", "m", "a", "-", "2", "b">>

FolderNames ==
    { GemmaTwoB,
      <<"G", "e", "m", "m", "a", "-", "3">>,
      <<"q", "w", "e", "n", "2", "5", "-", "7", "b">>,
      <<"Q", "w", "e", "n", "3", "-", "8", "B">>,
      <<"L", "l", "a", "m", "a", "-", "3">>,
      <<"l", "l", "a", "m", "a", "-", "g", "e", "m", "m", "a">>,
      <<"q", "w", "e", "n", "3", "-", "q", "w", "e", "n", "2", "5">>,
      <<"l", "l", "a", "m", "a", "-", "q", "w", "e", "n", "3">>,
      <<"m", "i", "s", "t", "r", "a", "l">>,
      <<"q", "w", "e", "n", "2", ".", "5">>,
      <<>> }

\* the content of the best-practice file of a family, if the package has
\* one: a JSON object, as its (key, value) pairs in iteration order
BestPractice(model_family) ==
    CASE model_family = "gemma" -> << <<"top-k", 64>>, <<"min-p", 0>> >>
      [] model_family = "qwen25" -> << <<"top-k", 20>>, <<"repeat-penalty", 1>> >>
      [] model_family = "qwen3" -> << <<"top-k", 20>>, <<"min-p", 0>> >>
      [] OTHER -> << <<"top-k", 40>> >>

\* context lengths a caller may ask for; an odd one shows the floor of "//"
CommandContexts == {DefaultContextLength, 4096, 4097}

\* _get_model_template_path: the path if the file exists, else None
get_model_template_path(model_family) ==
    IF model_family \in template_files
      THEN {"examples/templates/" \o model_family \o ".jinja"}
      ELSE {}

\* _get_model_best_practice_path followed by json.load of the file it names
get_model_best_practice(model_family) == best_practice_files[model_family]

\* the "--<key> <value>" pairs of a best-practice mapping
BestPracticeArgs(best_practice) ==
    [i \in 1..(2 * Len(best_practice)) |->
        IF i % 2 = 1 THEN "--" \o best_practice[(i + 1) \div 2][1]
                     ELSE ToString(best_practice[i \div 2][2])]

\* _build_ai_command; template_path and best_practice are {} for None
build_ai_command(ctx, template_path, best_practice) ==
    <<"llama-server", "--model", "model_path", "--port", "port", "--host",
      "host", "-c", ToString(ctx), "-fa", "--pooling", "mean", "--no-webui",
      "-ngl", "9999", "--no-mmap", "--mlock", "--jinja",
      "--reasoning-format", "none">>
    \o (IF template_path # {}
          THEN <<"--chat-template-file", CHOOSE t \in template_path : TRUE>>
          ELSE <<>>)
    \o (IF best_practice # {}
          THEN BestPracticeArgs(CHOOSE m \in best_practice : TRUE)
          ELSE <<>>)

\* a family rule that treats gemma like the other families
FamilyCommand_GemmaLikeOthers(name, ctx) ==
    LET lower == Lower(name) IN
    IF \E f \in {gemma, qwen25, qwen3, llama} : Contains(lower, f)
      THEN LET fam == IF Contains(lower, gemma) THEN "gemma"
                      ELSE IF Contains(lower, qwen25) THEN "qwen25"
                      ELSE IF Contains(lower, qwen3) THEN "qwen3"
                      ELSE "llama"
           IN build_ai_command(ctx, get_model_template_path(fam),
                               get_model_best_practice(fam))
      ELSE build_ai_command(ctx, {}, {})

\* the family rule: the if/elif chain on folder_name.lower()
FamilyCommand(name, ctx) ==
    LET lower == Lower(name) IN
    IF Contains(lower, gemma)
      THEN build_ai_command(ctx \div 2, get_model_template_path("gemma"), {})
    ELSE IF Contains(lower, qwen25)
      THEN build_ai_command(ctx, get_model_template_path("qwen25"),
                            get_model_best_practice("qwen25"))
    ELSE IF Contains(lower, qwen3)
      THEN build_ai_command(ctx, get_model_template_path("qwen3"),
                            get_model_best_practice("qwen3"))
    ELSE IF Contains(lower, llama)
      THEN build_ai_command(ctx, get_model_template_path("llama"),
                            get_model_best_practice("llama"))
    ELSE build_ai_command(ctx, {}, {})

\* start() is about to build the command: the manifest, the arguments and
\* the resource files of the package are any of those above
CommandInputs ==
    /\ folder_name \in FolderNames
    /\ requested_context \in CommandContexts
    /\ template_files \in SUBSET Families
    /\ best_practice_files \in
          {[f \in Families |-> IF f \in S THEN {BestPractice(f)} ELSE {}] :
              S \in SUBSET Families}
    /\ multimodal \in BOOLEAN
    /\ running_ai_command = <<>>
    /\ recorded_context = 0
    /\ restarts = 0

InitCommand ==
    InitSup /\ FetchAtRest /\ PoolIdle /\ TrackIdle /\ ExtraIdle /\ CommandInputs

\* a service_metadata filled in after the family rule has run
RecordedContext_AfterFamilyRule(name, ctx) ==
    IF Contains(Lower(name), gemma) THEN ctx \div 2 ELSE ctx

\* service_metadata["context_length"]: the dictionary is built from the
\* argument of start() before the family rule rebinds the local variable
RecordedContext(name, ctx) == ctx

\* the argv start() builds for context_length = ctx: the family rule, then
\* "--mmproj" for a multimodal model
StartCommand(ctx) ==
    FamilyCommand(folder_name, ctx)
    \o (IF multimodal THEN <<"--mmproj", "projector_path">> ELSE <<>>)

\* start(hash, port, context_length = requested_context) fills in
\* service_metadata and builds the command
BuildCommand ==
    /\ running_ai_command = <<>>
    /\ running_ai_command' = StartCommand(requested_context)
    /\ recorded_context' = RecordedContext(folder_name, requested_context)
    /\ UNCHANGED <<folder_name, requested_context, template_files,
                   best_practice_files, multimodal, restarts>>
    /\ UNCHANGED <<supVars, fetchVars, poolVars, trackVars, extraVars>>

NextCommand == BuildCommand

SpecCommand == InitCommand /\ [][NextCommand]_vars

MaxRestarts == 2

\* restart() of the service: context_length is read from the record, and
\* start(hash, port, context_length = context_length) records and builds
\* anew for the same model
RestartCommand ==
    /\ running_ai_command # <<>>
    /\ restarts < MaxRestarts
    /\ restarts' = restarts + 1
    /\ running_ai_command' = StartCommand(recorded_context)
    /\ recorded_context' = RecordedContext(folder_name, recorded_context)
    /\ UNCHANGED <<folder_name, requested_context, template_files,
                   best_practice_files, multimodal>>
    /\ UNCHANGED <<supVars, fetchVars, poolVars, trackVars, extraVars>>

NextRestartCommand == BuildCommand \/ RestartCommand

SpecRestartCommand == InitCommand /\ [][NextRestartCommand]_vars

(***************************************************************************)
(* Part II.  download_single_file_async: one fetcher per blob.  A step is  *)
(* the code between two awaits.                                            *)
(*   fpc: "idle" no fan-out yet, "queued" waiting for the semaphore,       *)
(*        "request" session.get sent, "streaming" status 200 and the body  *)
(*        is being written to the temp file, "backoff" in asyncio.sleep,   *)
(*        "returned" the coroutine is over (see outcome)                   *)
(***************************************************************************)
Min(a, b) == IF a < b THEN a ELSE b

Max(a, b) == IF a < b THEN b ELSE a

\* min(SLEEP_TIME * (2 ** n), 300)
Backoff(n) == Min(SLEEP_TIME * (2 ^ n), 300)

\* min(MAX_CONCURRENT_DOWNLOADS, max(4, num_of_files))
max_concurrent_downloads(n) == Min(MAX_CONCURRENT_DOWNLOADS, Max(4, n))

\* the size of the semaphore of the fan-out
MaxConcurrentDownloads == max_concurrent_downloads(num_of_files)

HoldsSemaphore(b) == fpc[b] \in {"request", "streaming", "backoff"}

ReturnFromFetch(b, o) ==
    /\ fpc' = [fpc EXCEPT ![b] = "returned"]
    /\ outcome' = [outcome EXCEPT ![b] = o]

\* a retry loop that never unlinks the temp file
EndOfAttempt_KeepTmp(b, wt) ==
    LET n == attempts[b] + 1 IN
    /\ attempts' = [attempts EXCEPT ![b] = n]
    /\ wait_time' = [wait_time EXCEPT ![b] = wt]
    /\ UNCHANGED tmp
    /\ IF n < MAX_ATTEMPTS
         THEN IF wt = {}
                THEN ReturnFromFetch(b, "raised")
                ELSE /\ fpc' = [fpc EXCEPT ![b] = "backoff"]
                     /\ UNCHANGED outcome
         ELSE ReturnFromFetch(b, "error")

\* the tail of the retry loop: attempts += 1, then either the "Retrying in
\* {wait_time}s" message and the sleep, or the final failure.  Reading
\* wait_time while it is unassigned raises UnboundLocalError outside the try
\* block, which ends the coroutine.  wt is wait_time as the attempt left it.
EndOfAttempt(b, wt) ==
    LET n == attempts[b] + 1 IN
    /\ attempts' = [attempts EXCEPT ![b] = n]
    /\ wait_time' = [wait_time EXCEPT ![b] = wt]
    /\ tmp' = [tmp EXCEPT ![b] = "absent"]
    /\ IF n < MAX_ATTEMPTS
         THEN IF wt = {}
                THEN ReturnFromFetch(b, "raised")
                ELSE /\ fpc' = [fpc EXCEPT ![b] = "backoff"]
                     /\ UNCHANGED outcome
         ELSE ReturnFromFetch(b, "error")

\* a fetcher that ignores the file already at the final path
BeginFetch_AlwaysDownload(b) ==
    /\ opc = "fanout"
    /\ fpc[b] = "queued"
    /\ Cardinality({c \in Blobs : HoldsSemaphore(c)}) < MaxConcurrentDownloads
    /\ final' = [final EXCEPT ![b] = "absent"]
    /\ tmp' = [tmp EXCEPT ![b] = "absent"]
    /\ fpc' = [fpc EXCEPT ![b] = "request"]
    /\ requests' = [requests EXCEPT ![b] = @ + 1]
    /\ UNCHANGED <<outcome, attempts, wait_time>>
    /\ UNCHANGED <<supVars, auxVars, orchVars>>

\* the semaphore is acquired; the file already at the final path is kept if
\* its hash is right and unlinked otherwise; a temp file left behind is
\* unlinked; then the first request is sent
BeginFetch(b) ==
    /\ opc = "fanout"
    /\ fpc[b] = "queued"
    /\ Cardinality({c \in Blobs : HoldsSemaphore(c)}) < MaxConcurrentDownloads
    /\ IF final[b] = "good"
         THEN /\ ReturnFromFetch(b, "path")
              /\ UNCHANGED <<final, tmp, requests>>
         ELSE /\ final' = [final EXCEPT ![b] = "absent"]
              /\ tmp' = [tmp EXCEPT ![b] = "absent"]
              /\ fpc' = [fpc EXCEPT ![b] = "request"]
              /\ requests' = [requests EXCEPT ![b] = @ + 1]
              /\ UNCHANGED outcome
    /\ UNCHANGED <<attempts, wait_time>>
    /\ UNCHANGED <<supVars, auxVars, orchVars>>

Responses == {"200", "404", "500", "timeout", "client_error"}

\* the gateway answers the request (or the request fails)
Response(b) ==
    /\ fpc[b] = "request"
    /\ \E r \in Responses :
         CASE r = "200" ->
                /\ tmp' = [tmp EXCEPT ![b] = "partial"]
                /\ fpc' = [fpc EXCEPT ![b] = "streaming"]
                /\ UNCHANGED <<attempts, wait_time, outcome>>
           [] r = "404" -> EndOfAttempt(b, {SLEEP_TIME})
           [] OTHER -> EndOfAttempt(b, {Backoff(attempts[b])})
    /\ UNCHANGED <<final, requests>>
    /\ UNCHANGED <<supVars, auxVars, orchVars>>

Bodies == {"good", "bad", "timeout", "client_error"}

\* a fetcher that renames the temp file whatever its hash
StreamBody_NoVerify(b) ==
    /\ fpc[b] = "streaming"
    /\ \E body \in Bodies :
         CASE body \in {"good", "bad"} ->
                /\ final' = [final EXCEPT ![b] = body]
                /\ tmp' = [tmp EXCEPT ![b] = "absent"]
                /\ ReturnFromFetch(b, "path")
                /\ UNCHANGED <<attempts, wait_time>>
           [] OTHER ->
                /\ EndOfAttempt(b, {Backoff(attempts[b])})
                /\ UNCHANGED final
    /\ UNCHANGED requests
    /\ UNCHANGED <<supVars, auxVars, orchVars>>

\* the body has been streamed to the temp file (or the stream broke) and the
\* hash of the temp file is compared with file_hash
StreamBody(b) ==
    /\ fpc[b] = "streaming"
    /\ \E body \in Bodies :
         CASE body = "good" ->
                /\ final' = [final EXCEPT ![b] = "good"]
                /\ tmp' = [tmp EXCEPT ![b] = "absent"]
                /\ ReturnFromFetch(b, "path")
                /\ UNCHANGED <<attempts, wait_time>>
           [] body = "bad" ->
                /\ EndOfAttempt(b, wait_time[b])
                /\ UNCHANGED final
           [] OTHER ->
                /\ EndOfAttempt(b, {Backoff(attempts[b])})
                /\ UNCHANGED final
    /\ UNCHANGED requests
    /\ UNCHANGED <<supVars, auxVars, orchVars>>

\* asyncio.sleep(wait_time) is over: the next attempt
WakeFetch(b) ==
    /\ fpc[b] = "backoff"
    /\ fpc' = [fpc EXCEPT ![b] = "request"]
    /\ requests' = [requests EXCEPT ![b] = @ + 1]
    /\ UNCHANGED <<attempts, wait_time, outcome, final, tmp>>
    /\ UNCHANGED <<supVars, auxVars, orchVars>>

(***************************************************************************)
(* download_files_from_lighthouse_async and                                *)
(* download_model_from_filecoin_async.                                     *)
(*   opc: "idle", "manifest" the metadata request is out, "fanout" the     *)
(*        fetchers run, "extract", "move", "sleep" the backoff before the  *)
(*        next attempt, "done" (see ret)                                   *)
(***************************************************************************)
\* what download_files_from_lighthouse_async returns once every task is over
DownloadFilesReturn(successful_downloads) ==
    IF Cardinality(successful_downloads) = num_of_files
      THEN successful_downloads
      ELSE IF successful_downloads # {} THEN successful_downloads ELSE {}

\* an orchestrator that gives up after the first failed attempt
AttemptFailed_NoRetry ==
    /\ opc' = "done"
    /\ ret' = "None"

\* every way an attempt fails ends the same: sleep and go round the loop, or
\* raise after the last attempt, which the outer handler turns into None
AttemptFailed ==
    IF attempt < MAX_ATTEMPTS
      THEN /\ opc' = "sleep"
           /\ UNCHANGED ret
      ELSE /\ opc' = "done"
           /\ ret' = "None"

\* an orchestrator without the check for the artifact
CallDownload_NoCheck ==
    /\ opc = "idle"
    /\ opc' = "manifest"
    /\ attempt' = 1
    /\ UNCHANGED <<ret, connector_closed, paths, output_exists, folder_exists,
                   extracted, projector_exists>>
    /\ UNCHANGED <<supVars, auxVars, blobVars>>

\* the call: output_dir.mkdir(exist_ok=True) and check_downloaded_model;
\* the path is returned at once if the artifact exists, else the connector
\* is made and the loop is entered
CallDownload ==
    /\ opc = "idle"
    /\ IF output_exists
         THEN /\ opc' = "done"
              /\ ret' = "path"
              /\ UNCHANGED attempt
         ELSE /\ opc' = "manifest"
              /\ attempt' = 1
              /\ UNCHANGED ret
    /\ UNCHANGED <<connector_closed, paths, output_exists, folder_exists,
                   extracted, projector_exists>>
    /\ UNCHANGED <<supVars, auxVars, blobVars>>

\* the metadata request inside "async with ClientSession(connector=...)".
\* The one connector is made before the loop and the session owns it, so
\* leaving the first session closes it and a later session.get raises.
ManifestResponse ==
    /\ opc = "manifest"
    /\ \E r \in (IF connector_closed THEN {"error"}
                                     ELSE {"200", "non200", "error"}) :
         IF r = "200"
           THEN /\ folder_exists' = TRUE
                /\ opc' = "fanout"
                /\ fpc' = [b \in Blobs |-> "queued"]
                /\ attempts' = [b \in Blobs |-> 0]
                /\ requests' = [b \in Blobs |-> 0]
                /\ wait_time' = [b \in Blobs |-> {}]
                /\ outcome' = [b \in Blobs |-> "none"]
                /\ UNCHANGED ret
           ELSE /\ AttemptFailed
                /\ UNCHANGED <<folder_exists, fpc, attempts, wait_time,
                               outcome, requests>>
    /\ connector_closed' = TRUE
    /\ UNCHANGED <<attempt, paths, output_exists, final, tmp, extracted,
                   projector_exists>>
    /\ UNCHANGED <<supVars, auxVars>>

\* every task has completed (returned or raised): the list comes back and
\* the orchestrator tests "if not paths"
FanoutDone ==
    /\ opc = "fanout"
    /\ \A b \in Blobs : fpc[b] = "returned"
    /\ paths' = DownloadFilesReturn({b \in Blobs : outcome[b] = "path"})
    /\ IF paths' = {}
         THEN AttemptFailed
         ELSE /\ opc' = "extract"
              /\ UNCHANGED ret
    /\ UNCHANGED <<attempt, connector_closed, output_exists, folder_exists,
                   extracted, projector_exists>>
    /\ UNCHANGED <<supVars, auxVars, blobVars>>

\* async_extract_zip(paths) raises, or it succeeds and leaves in the working
\* folder what the archive held: nothing under the name <folder_name>, the
\* model, or the model and its projector
Extract ==
    /\ opc = "extract"
    /\ \E r \in {"error", "none", "model", "model_projector"} :
         IF r = "error"
           THEN AttemptFailed /\ UNCHANGED extracted
           ELSE opc' = "move" /\ extracted' = r /\ UNCHANGED ret
    /\ UNCHANGED <<attempt, connector_closed, paths, output_exists,
                   folder_exists, projector_exists>>
    /\ UNCHANGED <<supVars, auxVars, blobVars>>

\* a move that leaves the projector in the working folder
Move_NoProjector ==
    /\ opc = "move"
    /\ output_exists' = TRUE
    /\ folder_exists' = FALSE
    /\ extracted' = "none"
    /\ final' = [b \in Blobs |-> "absent"]
    /\ tmp' = [b \in Blobs |-> "absent"]
    /\ opc' = "done"
    /\ ret' = "path"
    /\ UNCHANGED <<attempt, connector_closed, paths, projector_exists>>
    /\ UNCHANGED <<fpc, attempts, wait_time, outcome, requests>>
    /\ UNCHANGED <<supVars, auxVars>>

\* the block that moves the model: if <folder>/<folder_name> is missing the
\* attempt fails; otherwise the projector, if there is one, is moved next to
\* the artifact, the model is moved to <output_dir>/<hash>.gguf, the working
\* folder is deleted and the path is returned.  Each of the three awaited
\* calls may raise, which fails the attempt with the earlier ones done.
Move ==
    /\ opc = "move"
    /\ LET has_projector == extracted = "model_projector" IN
       \E r \in {"moved", "projector_error", "move_error", "rmtree_error"} :
         CASE extracted = "none" ->
                /\ AttemptFailed
                /\ UNCHANGED <<output_exists, folder_exists, final, tmp,
                               extracted, projector_exists>>
           [] extracted # "none" /\ r = "projector_error" ->
                /\ has_projector
                /\ AttemptFailed
                /\ UNCHANGED <<output_exists, folder_exists, final, tmp,
                               extracted, projector_exists>>
           [] extracted # "none" /\ r = "move_error" ->
                /\ projector_exists' = (projector_exists \/ has_projector)
                /\ extracted' = "model"
                /\ AttemptFailed
                /\ UNCHANGED <<output_exists, folder_exists, final, tmp>>
           [] extracted # "none" /\ r = "rmtree_error" ->
                /\ projector_exists' = (projector_exists \/ has_projector)
                /\ output_exists' = TRUE
                /\ extracted' = "none"
                /\ AttemptFailed
                /\ UNCHANGED <<folder_exists, final, tmp>>
           [] OTHER ->
                /\ projector_exists' = (projector_exists \/ has_projector)
                /\ output_exists' = TRUE
                /\ folder_exists' = FALSE
                /\ extracted' = "none"
                /\ final' = [b \in Blobs |-> "absent"]
                /\ tmp' = [b \in Blobs |-> "absent"]
                /\ opc' = "done"
                /\ ret' = "path"
    /\ UNCHANGED <<attempt, connector_closed, paths>>
    /\ UNCHANGED <<fpc, attempts, wait_time, outcome, requests>>
    /\ UNCHANGED <<supVars, auxVars>>

\* asyncio.sleep(backoff) is over: the next turn of the loop
WakeUp ==
    /\ opc = "sleep"
    /\ attempt' = attempt + 1
    /\ opc' = "manifest"
    /\ UNCHANGED <<connector_closed, paths, ret, output_exists,
                   folder_exists, extracted, projector_exists>>
    /\ UNCHANGED <<supVars, auxVars, blobVars>>

(***************************************************************************)
(* SpecFetch: one call of download_model_from_filecoin_async, on a disk    *)
(* that an earlier run may have left in any state.                         *)
(***************************************************************************)
NextFetch ==
    \/ CallDownload
    \/ ManifestResponse
    \/ \E b \in Blobs : BeginFetch(b)
    \/ \E b \in Blobs : Response(b)
    \/ \E b \in Blobs : StreamBody(b)
    \/ \E b \in Blobs : WakeFetch(b)
    \/ FanoutDone
    \/ Extract
    \/ Move
    \/ WakeUp

SpecFetch == InitFetch /\ [][NextFetch]_vars

(***************************************************************************)
(* SpecSemaphore: the semaphore of one fan-out.  The tasks differ only in  *)
(* where they are, so they are counted: waiting for the semaphore, inside  *)
(* download_single_file_async, or over.  The manifest is any one with up   *)
(* to MaxFiles descriptors; its num_of_files field need not be the length  *)
(* of its files list.                                                      *)
(***************************************************************************)
FanoutStarted ==
    /\ total_files \in 1..MaxFiles
    /\ declared_files \in 1..MaxFiles
    /\ semaphore = max_concurrent_downloads(declared_files)
    /\ waiting = total_files
    /\ in_flight = 0
    /\ CmdIdle
    /\ TrackIdle

InitSemaphore == InitSup /\ FetchAtRest /\ ExtraIdle /\ FanoutStarted

\* a wrapper that calls the fetcher without the semaphore
SemaphoreAcquire_NoLimit ==
    /\ waiting > 0
    /\ waiting' = waiting - 1
    /\ in_flight' = in_flight + 1
    /\ UNCHANGED <<total_files, declared_files, semaphore>>
    /\ UNCHANGED <<supVars, fetchVars, cmdVars, trackVars, extraVars>>

\* "async with semaphore": a task passes when the counter is positive and
\* decrements it, then calls download_single_file_async
SemaphoreAcquire ==
    /\ waiting > 0
    /\ semaphore > 0
    /\ semaphore' = semaphore - 1
    /\ waiting' = waiting - 1
    /\ in_flight' = in_flight + 1
    /\ UNCHANGED <<total_files, declared_files>>
    /\ UNCHANGED <<supVars, fetchVars, cmdVars, trackVars, extraVars>>

\* download_single_file_async returns or raises: leaving the "async with"
\* block increments the counter
SemaphoreRelease ==
    /\ in_flight > 0
    /\ in_flight' = in_flight - 1
    /\ semaphore' = semaphore + 1
    /\ UNCHANGED <<total_files, declared_files, waiting>>
    /\ UNCHANGED <<supVars, fetchVars, cmdVars, trackVars, extraVars>>

NextSemaphore == SemaphoreAcquire \/ SemaphoreRelease

SpecSemaphore == InitSemaphore /\ [][NextSemaphore]_vars

(***************************************************************************)
(* SpecProgress: the ProgressTracker of one fan-out, the fetchers that     *)
(* report to it, the as_completed loop and the periodic task.  A step is   *)
(* the code a task runs between two suspensions.  Both asyncio.Lock        *)
(* objects are only ever held by code without an await in it, so a lock is *)
(* free whenever a task reaches "async with" and acquiring it does not     *)
(* suspend the task.  Sizes are in MiB.                                    *)
(***************************************************************************)
\* the sizes of the bodies the gateway serves
BlobSizes == {88, 12}

\* the sum of the sizes of all blobs of the manifest
TotalSize(size) ==
    LET sum[n \in 0..NumBlobs] == IF n = 0 THEN 0 ELSE size[n] + sum[n - 1]
    IN sum[NumBlobs]

\* f"{percentage:.1f}" for percentage = num / den * 100, in tenths
PercentTenths(num, den) == (2000 * num + den) \div (2 * den)

\* the percentage of a progress line, in tenths, for the counters given
Percentage(downloaded, expected, completed) ==
    IF expected > 0
      THEN Min(PercentTenths(downloaded, expected), 1000)
      ELSE PercentTenths(completed, NumBlobs)

\* the progress line is printed; it is kept if it says all files are done
PrintProgress(downloaded, completed) ==
    progress_lines' =
        IF completed = NumBlobs
          THEN progress_lines \cup
                  {Percentage(downloaded, total_bytes_expected, completed)}
          ELSE progress_lines

\* a tracker that empties the pending counter without adding to the total
MovePending_Lossy(pending) ==
    /\ pending_bytes' = 0
    /\ UNCHANGED total_bytes_downloaded

\* pending_to_process = pending_bytes; pending_bytes = 0;
\* total_bytes_downloaded += pending_to_process
MovePending(pending) ==
    /\ pending_bytes' = 0
    /\ total_bytes_downloaded' = total_bytes_downloaded + pending

\* update_progress_batched(bytes_downloaded)
update_progress_batched(bytes_downloaded) ==
    LET pending == pending_bytes + bytes_downloaded IN
    IF pending >= PROGRESS_BATCH_SIZE
      THEN MovePending(pending)
      ELSE /\ pending_bytes' = pending
           /\ UNCHANGED total_bytes_downloaded

\* ProgressTracker.__init__ has run, which creates the periodic task, and
\* every fetcher has the semaphore: it is about to send its first request,
\* or it has found a verified file and returned its path without a request
ProgressStarted ==
    /\ pending_bytes = 0
    /\ total_bytes_downloaded = 0
    /\ total_bytes_expected = 0
    /\ completed_files = 0
    /\ reported = 0
    /\ blob_size \in [Blobs -> BlobSizes]
    /\ TotalSize(blob_size) <= MaxTotalMiB
    /\ sends_length \in BOOLEAN
    /\ remaining = [b \in Blobs |-> 0]
    /\ tries = [b \in Blobs |-> 0]
    /\ tpc \in [Blobs -> {"request", "returned"}]
    /\ mpc = "gathering"
    /\ ppc = "sleeping"
    /\ wakes_since_log = 1
    /\ progress_lines = {}

InitProgress ==
    InitSup /\ FetchAtRest /\ PoolIdle /\ CmdIdle /\ ExtraIdle /\ ProgressStarted

\* the end of an attempt that raised (a timeout, a client error) or got
\* another status than 200: attempts += 1, then the sleep and the next
\* request, or after the last attempt the end of the fetcher without a path
TrackAttemptOver(b) ==
    /\ tries' = [tries EXCEPT ![b] = @ + 1]
    /\ tpc' = [tpc EXCEPT ![b] = IF tries[b] + 1 < MAX_ATTEMPTS
                                   THEN "request" ELSE "errored"]

\* the response to session.get: with status 200 the Content-Length, if the
\* header is there, is registered by add_file_size and the body follows
TrackResponse(b) ==
    /\ tpc[b] = "request"
    /\ \E r \in {"200", "failed"} :
         IF r = "200"
           THEN /\ total_bytes_expected' =
                      total_bytes_expected +
                          (IF sends_length THEN blob_size[b] ELSE 0)
                /\ remaining' = [remaining EXCEPT ![b] = blob_size[b]]
                /\ tpc' = [tpc EXCEPT ![b] = "streaming"]
                /\ UNCHANGED tries
           ELSE /\ TrackAttemptOver(b)
                /\ UNCHANGED <<total_bytes_expected, remaining>>
    /\ UNCHANGED <<pending_bytes, total_bytes_downloaded, completed_files,
                   reported, blob_size, sends_length, mpc, ppc, wakes_since_log,
                   progress_lines>>
    /\ UNCHANGED <<supVars, fetchVars, poolVars, cmdVars, extraVars>>

\* one turn of "async for chunk in response.content.iter_chunked(chunk_size)":
\* the chunk is written and progress_callback(len(chunk)) is awaited
TrackChunk(b) ==
    /\ tpc[b] = "streaming"
    /\ remaining[b] > 0
    /\ LET chunk == Min(CHUNK_SIZE_MB, remaining[b]) IN
         /\ remaining' = [remaining EXCEPT ![b] = @ - chunk]
         /\ reported' = reported + chunk
         /\ update_progress_batched(chunk)
    /\ UNCHANGED <<total_bytes_expected, completed_files, blob_size, sends_length, tries,
                   tpc, mpc, ppc, wakes_since_log, progress_lines>>
    /\ UNCHANGED <<supVars, fetchVars, poolVars, cmdVars, extraVars>>

\* the body is complete: the hash is right and the path is returned, or it
\* is wrong, which ends the fetcher without a path: at once if this was its
\* first attempt (wait_time is unassigned), else as its last failure
TrackStreamEnd(b) ==
    /\ tpc[b] = "streaming"
    /\ remaining[b] = 0
    /\ \E verified \in BOOLEAN :
         IF verified
           THEN /\ tpc' = [tpc EXCEPT ![b] = "returned"]
                /\ UNCHANGED tries
           ELSE /\ tpc' = [tpc EXCEPT ![b] = "errored"]
                /\ tries' = [tries EXCEPT ![b] = @ + 1]
    /\ UNCHANGED <<pending_bytes, total_bytes_downloaded,
                   total_bytes_expected, completed_files, reported, blob_size, sends_length,
                   remaining, mpc, ppc, wakes_since_log, progress_lines>>
    /\ UNCHANGED <<supVars, fetchVars, poolVars, cmdVars, extraVars>>

\* a timeout or a client error while the body is read
TrackStreamBreaks(b) ==
    /\ tpc[b] = "streaming"
    /\ remaining[b] > 0
    /\ TrackAttemptOver(b)
    /\ UNCHANGED <<pending_bytes, total_bytes_downloaded,
                   total_bytes_expected, completed_files, reported, blob_size, sends_length,
                   remaining, mpc, ppc, wakes_since_log, progress_lines>>
    /\ UNCHANGED <<supVars, fetchVars, poolVars, cmdVars, extraVars>>

\* where the as_completed loop stands after the result of b: with every
\* other result taken the loop ends and cleanup() cancels the periodic task
\* and awaits it, all without a suspension in between
AfterResult(b) ==
    IF \A c \in Blobs \ {b} : tpc[c] \in {"counted", "dismissed"}
      THEN "cancelling"
      ELSE "gathering"

\* a loop that counts a returned task without marking its result as taken
CompleteFile_CountsAgain(b) ==
    /\ mpc = "gathering"
    /\ tpc[b] = "returned"
    /\ completed_files' = completed_files + 1
    /\ PrintProgress(total_bytes_downloaded, completed_files + 1)
    /\ UNCHANGED <<pending_bytes, total_bytes_downloaded,
                   total_bytes_expected, reported, blob_size, sends_length, remaining,
                   tries, tpc, mpc, ppc, wakes_since_log>>
    /\ UNCHANGED <<supVars, fetchVars, poolVars, cmdVars, extraVars>>

\* the as_completed loop takes the result of a task that returned a path:
\* complete_file() counts the file and prints a progress line
CompleteFile(b) ==
    /\ mpc = "gathering"
    /\ tpc[b] = "returned"
    /\ completed_files' = completed_files + 1
    /\ PrintProgress(total_bytes_downloaded, completed_files + 1)
    /\ tpc' = [tpc EXCEPT ![b] = "counted"]
    /\ mpc' = AfterResult(b)
    /\ UNCHANGED <<pending_bytes, total_bytes_downloaded,
                   total_bytes_expected, reported, blob_size, sends_length, remaining,
                   tries, ppc, wakes_since_log>>
    /\ UNCHANGED <<supVars, fetchVars, poolVars, cmdVars, extraVars>>

\* the as_completed loop takes the result of a task that ended without a
\* path: the error is noted
DismissFile(b) ==
    /\ mpc = "gathering"
    /\ tpc[b] = "errored"
    /\ tpc' = [tpc EXCEPT ![b] = "dismissed"]
    /\ mpc' = AfterResult(b)
    /\ UNCHANGED <<pending_bytes, total_bytes_downloaded,
                   total_bytes_expected, completed_files, reported, blob_size, sends_length,
                   remaining, tries, ppc, wakes_since_log, progress_lines>>
    /\ UNCHANGED <<supVars, fetchVars, poolVars, cmdVars, extraVars>>

\* the periodic task wakes from asyncio.sleep(1.0): pending bytes are moved
\* to the total, and a progress line is printed if the last one of this task
\* is 2 s old.  At the first wake-up after such a line the 2 s may or may
\* not be over (the sleep lasts at least 1 s); at the second they are.
\* last_log_time starts at 0, so the first wake-up of all prints.
PeriodicWake ==
    /\ ppc = "sleeping"
    /\ mpc = "gathering"
    /\ IF pending_bytes > 0
         THEN MovePending(pending_bytes)
         ELSE UNCHANGED <<pending_bytes, total_bytes_downloaded>>
    /\ \E log \in BOOLEAN :
         /\ wakes_since_log >= 1 => log
         /\ IF log
              THEN /\ PrintProgress(total_bytes_downloaded', completed_files)
                   /\ wakes_since_log' = 0
              ELSE /\ wakes_since_log' = 1
                   /\ UNCHANGED progress_lines
    /\ UNCHANGED <<total_bytes_expected, completed_files, reported,
                   blob_size, sends_length, remaining, tries, tpc, mpc, ppc>>
    /\ UNCHANGED <<supVars, fetchVars, poolVars, cmdVars, extraVars>>

\* the cancelled task is resumed with CancelledError inside asyncio.sleep:
\* "except asyncio.CancelledError: break"
PeriodicCancelled ==
    /\ ppc = "sleeping"
    /\ mpc = "cancelling"
    /\ ppc' = "ended"
    /\ UNCHANGED <<pending_bytes, total_bytes_downloaded,
                   total_bytes_expected, completed_files, reported, blob_size, sends_length,
                   remaining, tries, tpc, mpc, wakes_since_log,
                   progress_lines>>
    /\ UNCHANGED <<supVars, fetchVars, poolVars, cmdVars, extraVars>>

\* "await self.progress_task" is over and cleanup() returns
CleanupReturns ==
    /\ mpc = "cancelling"
    /\ ppc = "ended"
    /\ mpc' = "cleaned"
    /\ UNCHANGED <<pending_bytes, total_bytes_downloaded,
                   total_bytes_expected, completed_files, reported, blob_size, sends_length,
                   remaining, tries, tpc, ppc, wakes_since_log,
                   progress_lines>>
    /\ UNCHANGED <<supVars, fetchVars, poolVars, cmdVars, extraVars>>

NextProgress ==
    \/ \E b \in Blobs : TrackResponse(b)
    \/ \E b \in Blobs : TrackChunk(b)
    \/ \E b \in Blobs : TrackStreamEnd(b)
    \/ \E b \in Blobs : TrackStreamBreaks(b)
    \/ \E b \in Blobs : CompleteFile(b)
    \/ \E b \in Blobs : DismissFile(b)
    \/ PeriodicWake
    \/ PeriodicCancelled
    \/ CleanupReturns

SpecProgress == InitProgress /\ [][NextProgress]_vars

(***************************************************************************)
(* Claims about the fetcher                                                *)
(***************************************************************************)

\* flag and value are adjacent in the argv
HasPair(argv, flag, value) ==
    \E i \in 1..(Len(argv) - 1) : argv[i] = flag /\ argv[i + 1] = value

HasFlag(argv, flag) == \E i \in 1..Len(argv) : argv[i] = flag

\* no key of any best-practice file of the package is a flag of the argv
NoBestPracticePairs(argv) ==
    \A f \in Families : \A m \in best_practice_files[f] :
        \A k \in 1..Len(m) : ~HasFlag(argv, "--" \o m[k][1])

\* the argv carries the template and every best-practice pair of family f
FamilyResourcesUsed(argv, f) ==
    /\ HasFlag(argv, "--chat-template-file") <=> f \in template_files
    /\ f \in template_files =>
          HasPair(argv, "--chat-template-file",
                  "examples/templates/" \o f \o ".jinja")
    /\ \A m \in best_practice_files[f] : \A k \in 1..Len(m) :
          HasPair(argv, "--" \o m[k][1], ToString(m[k][2]))
    /\ \A g \in Families \ {f} : \A m \in best_practice_files[g] :
          \A k \in 1..Len(m) :
             HasFlag(argv, "--" \o m[k][1]) =>
                \E m2 \in best_practice_files[f] : \E j \in 1..Len(m2) :
                    m2[j][1] = m[k][1]

\* C27: the command follows the family rule on the lower-cased folder_name,
\* tested in the order gemma, qwen25, qwen3, llama, first match wins: gemma
\* passes half the context length as -c and appends only the template;
\* qwen25, qwen3 and llama keep the context length and append the template
\* and every best-practice pair; any other name appends neither.  For
\* 'gemma-2b' and 32768 the argv has '-c 16384' and no best-practice pair.
C27_CommandFollowsFamilyRule ==
    running_ai_command # <<>> =>
        LET argv == running_ai_command
            lower == Lower(folder_name)
            isGemma == Contains(lower, gemma)
            isQwen25 == ~isGemma /\ Contains(lower, qwen25)
            isQwen3 == ~isGemma /\ ~isQwen25 /\ Contains(lower, qwen3)
            isLlama == /\ ~isGemma /\ ~isQwen25 /\ ~isQwen3
                       /\ Contains(lower, llama)
            full == ToString(requested_context)
            half == ToString(requested_context \div 2)
        IN
        /\ isGemma =>
              /\ HasPair(argv, "-c", half)
              /\ ~HasPair(argv, "-c", full)
              /\ HasFlag(argv, "--chat-template-file")
                    <=> "gemma" \in template_files
              /\ NoBestPracticePairs(argv)
        /\ isQwen25 =>
              HasPair(argv, "-c", full) /\ FamilyResourcesUsed(argv, "qwen25")
        /\ isQwen3 =>
              HasPair(argv, "-c", full) /\ FamilyResourcesUsed(argv, "qwen3")
        /\ isLlama =>
              HasPair(argv, "-c", full) /\ FamilyResourcesUsed(argv, "llama")
        /\ (~isGemma /\ ~isQwen25 /\ ~isQwen3 /\ ~isLlama) =>
              /\ HasPair(argv, "-c", full)
              /\ ~HasFlag(argv, "--chat-template-file")
              /\ NoBestPracticePairs(argv)
        /\ (folder_name = GemmaTwoB /\ requested_context = 32768) =>
              HasPair(argv, "-c", "16384") /\ NoBestPracticePairs(argv)

\* the command has been built for 'gemma-2b' and 32768 while the package
\* has a best-practice file and a template for gemma
C27_Witness ==
    /\ running_ai_command # <<>>
    /\ folder_name = GemmaTwoB
    /\ requested_context = 32768
    /\ best_practice_files["gemma"] # {}
    /\ "gemma" \in template_files

\* C5: in an orchestration attempt extraction and the move run only when
\* every blob of the manifest was downloaded and verified, never with a
\* subset of the blobs.
C5_PostProcessingOnlyWithAllBlobs ==
    opc \in {"extract", "move"} => Cardinality(paths) = num_of_files

\* C6: download_single_file_async never raises; whatever the gateway
\* answers, the coroutine ends with (path, None) or (None, error).
C6_FetcherNeverRaises ==
    \A b \in Blobs : outcome[b] # "raised"

\* C18: the fetcher never places unverified bytes at a final path: a file
\* appears there only by the rename of the temp file whose hash was just
\* found equal to file_hash, and when a fetcher returns a path the file at
\* that path has the hash of the descriptor.
C18_FinalPathOnlyVerified ==
    [][\A b \in Blobs :
          /\ (final'[b] # final[b] /\ final'[b] # "absent") =>
                /\ final'[b] = "good"
                /\ tmp[b] = "partial"
                /\ tmp'[b] = "absent"
          /\ (outcome'[b] = "path" /\ outcome[b] # "path") =>
                final'[b] = "good"]_vars

\* a blob was downloaded, verified and installed
C18_Witness ==
    \E b \in Blobs :
        /\ outcome[b] = "path"
        /\ requests[b] > 0
        /\ final[b] = "good"

C20_ExistingFileShortCircuit ==
    [][\A b \in Blobs :
          (fpc[b] = "queued" /\ fpc'[b] # "queued") =>
              /\ final[b] = "good" =>
                    /\ fpc'[b] = "returned"
                    /\ outcome'[b] = "path"
                    /\ final'[b] = "good"
                    /\ requests'[b] = 0
              /\ final[b] = "bad" =>
                    /\ final'[b] = "absent"
                    /\ fpc'[b] = "request"
                    /\ requests'[b] = 1
                    /\ outcome'[b] = "none"]_vars

\* a fetcher has returned the existing file without a request
C20_Witness ==
    \E b \in Blobs :
        /\ fpc[b] = "returned"
        /\ outcome[b] = "path"
        /\ requests[b] = 0
        /\ final[b] = "good"

\* C21: at every instant the number of blob downloads in flight in one
\* fan-out is at most min(16, max(4, num_of_files)), for any number of
\* descriptors in the manifest.
C21_InFlightBounded ==
    total_files > 0 =>
        in_flight <= Min(16, Max(4, declared_files))

\* more tasks than the semaphore admits: MAX_CONCURRENT_DOWNLOADS are in
\* flight and another one is waiting
C21_Witness ==
    /\ in_flight = MAX_CONCURRENT_DOWNLOADS
    /\ waiting > 0

\* C22: the orchestrator makes at most MAX_ATTEMPTS attempts, and the attempt
\* that follows the sleep after a failed one is a complete new attempt: its
\* manifest request goes out over a usable HTTP session, so it can return
\* the artifact path when the gateway serves correct data.
C22_RetryIsCompleteAttempt ==
    /\ attempt <= MAX_ATTEMPTS
    /\ (opc = "manifest" /\ attempt > 1) => ~connector_closed

\* the first response for the blob was a 200 whose body did not hash to
\* file_hash: the only way a fetcher ends by raising
HashMismatch(b) == outcome[b] = "raised"

C24_SuccessInstallsAndCleansUp ==
    [][(opc = "move" /\ ret' = "path") =>
          /\ output_exists'
          /\ ~folder_exists'
          /\ \A b \in Blobs : final'[b] = "absent" /\ tmp'[b] = "absent"
          /\ (extracted = "model_projector") => projector_exists']_vars

\* an attempt has succeeded for a model that came with a projector
C24_Witness ==
    /\ opc = "done"
    /\ ret = "path"
    /\ attempt = 1
    /\ projector_exists
    /\ output_exists
    /\ ~folder_exists

\* C25: if <output_dir>/<hash>.gguf exists when the orchestrator is called,
\* the call returns that path without any HTTP request (no manifest fetch,
\* no blob fetch) and without creating or modifying any file or working
\* folder.
C25_ExistingArtifactReturnedUntouched ==
    [][/\ (opc = "idle" /\ output_exists /\ opc' # "idle") =>
             /\ opc' = "done"
             /\ ret' = "path"
             /\ UNCHANGED <<output_exists, projector_exists, folder_exists,
                            extracted, final, tmp>>
             /\ UNCHANGED <<requests, fpc, connector_closed, attempt>>
       /\ opc = "done" => UNCHANGED fetchVars]_vars

\* the call has returned the path of an artifact that was already there,
\* next to what an earlier run left in the working folder
C25_Witness ==
    /\ opc = "done"
    /\ ret = "path"
    /\ attempt = 0
    /\ folder_exists

\* C26: a call made after a failed orchestration, with verified blobs still
\* in the working folder, reuses every blob whose final path holds a file of
\* the right hash without downloading it again, sends requests only for the
\* other blobs, and goes on to post-processing with all of them once those
\* have been obtained.
C26_VerifiedBlobsReused ==
    [][/\ \A b \in Blobs :
             /\ requests'[b] > requests[b] => final[b] # "good"
             /\ (fpc[b] = "queued" /\ fpc'[b] # "queued" /\ final[b] = "good")
                   => /\ fpc'[b] = "returned"
                      /\ outcome'[b] = "path"
                      /\ final'[b] = "good"
       /\ (opc = "fanout" /\ opc' # "fanout"
              /\ \A b \in Blobs : final[b] = "good")
             => opc' = "extract" /\ paths' = Blobs]_vars

\* the call has succeeded with one blob taken from the working folder as it
\* was and another one downloaded
C26_Witness ==
    /\ opc = "done"
    /\ ret = "path"
    /\ attempt = 1
    /\ \E b \in Blobs : requests[b] = 0
    /\ \E b \in Blobs : requests[b] > 0

\* C28: at every point where another task can run, pending_bytes plus
\* total_bytes_downloaded is the sum of all byte counts passed to
\* update_progress_batched so far, for every interleaving of the fetchers,
\* the periodic task and complete_file: no reported byte is lost or counted
\* twice.
C28_ReportedBytesConserved ==
    mpc # "none" => pending_bytes + total_bytes_downloaded = reported

\* two fetchers are reading their bodies, bytes have been moved to the total
\* by a batch and others are pending
C28_Witness ==
    /\ \A b \in Blobs : tpc[b] = "streaming" /\ remaining[b] < blob_size[b]
    /\ total_bytes_downloaded > 0
    /\ pending_bytes > 0

\* C29: the periodic task, cancelled by cleanup(), moves pending_bytes to
\* total_bytes_downloaded one last time before it ends: once cleanup() has
\* returned, pending_bytes is 0 and total_bytes_downloaded is the sum of
\* all reported chunk sizes.
C29_CleanupLeavesNothingPending ==
    mpc = "cleaned" =>
        pending_bytes = 0 /\ total_bytes_downloaded = reported

\* C30: for a manifest of two blobs of 100 MiB in all that both download
\* successfully with Content-Length present, by the end of the fan-out a
\* progress line has been printed that says "2/2 files" with a percentage
\* of at least 99.0, however fast the downloads are.
C30_FinalLineReportsCompletion ==
    (/\ mpc = "cleaned"
     /\ NumBlobs = 2
     /\ completed_files = 2
     /\ total_bytes_expected = 100
     /\ reported = 100)
        => \E tenths \in progress_lines : tenths >= 990

\* C31: the Content-Length of a blob is added to total_bytes_expected at
\* most once per blob in a fan-out, also when the blob takes more than one
\* attempt that gets a 200 response: total_bytes_expected never exceeds the
\* sum of the Content-Length values of the blobs.
C31_ExpectedAtMostSumOfSizes ==
    mpc # "none" => total_bytes_expected <= TotalSize(blob_size)


(***************************************************************************)
(* The streaming loop of one attempt, with its clock (SpecStream).         *)
(* Times are seconds since the 200 response.  The session is created with  *)
(* ClientTimeout(total=900, sock_read=300): the client raises a timeout    *)
(* error, a subclass of asyncio.TimeoutError, when one read of the socket  *)
(* waits longer than sock_read or the request lasts longer than total.     *)
(***************************************************************************)
chunk_timeout == 180

SOCK_READ == 300

TOTAL_TIMEOUT == 900

MaxChunks == 3

\* how long the loop may wait for the next chunk
Waits == {1, 100, 200, SOCK_READ + 1}

\* how long writing a chunk and reporting it may take
Delays == {0, 100, chunk_timeout + 1}

\* the 200 response has arrived and last_data_time was set
StreamStarted ==
    /\ stream = "waiting"
    /\ now = 0
    /\ last_data_time = 0
    /\ chunks_read = 0

InitStream ==
    /\ InitSup /\ FetchAtRest /\ PoolIdle /\ CmdIdle /\ TrackIdle
    /\ LocksIdle /\ GatherIdle /\ StreamStarted

\* the next chunk arrives after w seconds: "async for" resumes and the first
\* statement of the body sets last_data_time
ChunkArrives(w) ==
    /\ now' = now + w
    /\ last_data_time' = now'
    /\ stream' = "processing"
    /\ UNCHANGED chunks_read

\* the client's own timeouts end the read with asyncio.TimeoutError
ClientTimeout(w) ==
    /\ now' = now + Min(w, SOCK_READ)
    /\ stream' = "timed_out"
    /\ UNCHANGED <<last_data_time, chunks_read>>

NextChunk ==
    /\ stream = "waiting"
    /\ chunks_read < MaxChunks
    /\ \E w \in Waits :
          IF w > SOCK_READ \/ now + w > TOTAL_TIMEOUT
          THEN ClientTimeout(w)
          ELSE ChunkArrives(w)
    /\ UNCHANGED <<supVars, fetchVars, poolVars, cmdVars, trackVars, lockVars, gatherVars>>

\* the rest of the loop body: write, progress callback, flush, and the test
\* of the time since last_data_time
ChunkProcessed ==
    /\ stream = "processing"
    /\ \E d \in Delays :
          /\ now' = now + d
          /\ IF now' - last_data_time > chunk_timeout
             THEN stream' = "timed_out" /\ UNCHANGED chunks_read
             ELSE stream' = "waiting" /\ chunks_read' = chunks_read + 1
    /\ UNCHANGED last_data_time
    /\ UNCHANGED <<supVars, fetchVars, poolVars, cmdVars, trackVars, lockVars, gatherVars>>

\* the body ends: the loop is left
BodyEnds ==
    /\ stream = "waiting"
    /\ stream' = "done"
    /\ UNCHANGED <<now, last_data_time, chunks_read>>
    /\ UNCHANGED <<supVars, fetchVars, poolVars, cmdVars, trackVars, lockVars, gatherVars>>

NextStream == NextChunk \/ ChunkProcessed \/ BodyEnds

SpecStream == InitStream /\ [][NextStream]_vars

\* C32: while a blob is streamed, a chunk that arrives more than 180 s after
\* the chunk before it is never taken into the loop body: the attempt ends as
\* an idle timeout instead.
C32_LateChunkIsIdleTimeout ==
    [][(stream = "waiting" /\ chunks_read >= 1 /\ stream' = "processing")
          => now' - last_data_time <= chunk_timeout]_vars


\* C33: when an attempt of a fetcher has failed and it was not the last one,
\* the wait before the next attempt is defined: it is SLEEP_TIME after a 404
\* (or 401, 403) response and min(SLEEP_TIME * 2^attempt, 300) after any
\* other failure, with attempt counted from 0, so never more than 300 s; and
\* a fetcher never sleeps after its last attempt.
C33_WaitDefinedAndBounded ==
    \A b \in Blobs :
       /\ (attempts[b] >= 1 /\ attempts[b] < MAX_ATTEMPTS)
             => /\ wait_time[b] # {}
                /\ \A w \in wait_time[b] :
                      /\ w \in {SLEEP_TIME, Backoff(attempts[b] - 1)}
                      /\ w <= 300
       /\ fpc[b] = "backoff" => attempts[b] < MAX_ATTEMPTS


\* C34: the percentage of every progress line is 100 * total_bytes_downloaded
\* / total_bytes_expected capped at 100 when total_bytes_expected > 0 and
\* 100 * completed_files / total_files otherwise; it lies between 0 and 100,
\* and completed_files never exceeds total_files.
C34_PercentageInRange ==
    mpc # "none" =>
       LET percentage == Percentage(total_bytes_downloaded,
                                    total_bytes_expected, completed_files)
       IN /\ completed_files \in 0..NumBlobs
          /\ percentage \in 0..1000
          /\ total_bytes_expected > 0 =>
                percentage = Min(PercentTenths(total_bytes_downloaded,
                                               total_bytes_expected), 1000)
          /\ total_bytes_expected = 0 =>
                percentage = PercentTenths(completed_files, NumBlobs)
          /\ progress_lines \subseteq 0..1000

\* both forms of the percentage have been printed for a complete fan-out:
\* here the one computed from bytes, below 100 because bytes are pending
C34_Witness ==
    /\ completed_files = NumBlobs
    /\ total_bytes_expected > 0
    /\ \E tenths \in progress_lines : tenths > 0 /\ tenths < 1000


\* C35: when a process leaves _start_lock after an acquire that failed
\* because another process holds the lock inside the guarded body, the lock
\* file is as the holder left it: it exists and contains the holder's PID.
C35_FailedAcquireKeepsLockFile ==
    [][\A q \in Procs : \A holder \in Procs \ {q} :
         (/\ pc[q] = "finally_remove"
          /\ pc'[q] = "done"
          /\ result[q] \in {"AlreadyStarting", "StaleLockRemoved"}
          /\ InGuardedBody(holder)
          /\ flockHolder[lock_fd[holder]] = holder)
         => (/\ lockPath' = lock_fd[holder]
             /\ lockContent'[lock_fd[holder]] = holder)]_vars


\* C36: at the moment start(H, p) returns True the record file exists and
\* holds a record with hash H and app_port p, also when the write of the
\* record file failed.
C36_TrueStartHasRecord ==
    [][\A s \in Procs :
         (InGuardedBody(s) /\ result[s] # "True" /\ result'[s] = "True")
         => (/\ record' # NoRecord
             /\ record'.hash = hash[s]
             /\ record'.app_port = port[s])]_vars


C38_RestartKeepsContext ==
    running_ai_command # <<>> =>
       /\ recorded_context = requested_context
       /\ running_ai_command = StartCommand(requested_context)
       /\ Contains(Lower(folder_name), gemma) =>
             /\ HasPair(running_ai_command, "-c",
                        ToString(requested_context \div 2))
             /\ ~HasPair(running_ai_command, "-c",
                         ToString((requested_context \div 2) \div 2))

\* the gemma service started with 32768 has been restarted twice
C38_Witness ==
    /\ restarts = 2
    /\ folder_name = GemmaTwoB
    /\ requested_context = 32768
    /\ HasPair(running_ai_command, "-c", "16384")


(***************************************************************************)
(* The two locks of the ProgressTracker (SpecTrackerLocks).  Every "async  *)
(* with" is taken as a point where the task may be suspended, the blocks   *)
(* under the locks contain no await.  An asyncio.Lock is acquired at once  *)
(* when it is unlocked and nobody waits for it; otherwise the caller joins *)
(* the waiters, and a release wakes the first of them.  The byte counters  *)
(* are left out: whether a threshold test succeeds is any of both.         *)
(*   lpc: "idle", "wait_pending", "hold_pending", "wait_lock_nested",      *)
(*        "hold_both", "wait_lock", "hold_lock", and for the periodic task *)
(*        "after_pending" (between its two blocks)                         *)
(***************************************************************************)
\* "async with self.lock" by task t, which goes on at held or waits at queued
AcquireLock(t, held, queued) ==
    IF lock = 0 /\ lock_waiters = <<>>
      THEN /\ lock' = t
           /\ lpc' = [lpc EXCEPT ![t] = held]
           /\ UNCHANGED lock_waiters
      ELSE /\ lock_waiters' = Append(lock_waiters, t)
           /\ lpc' = [lpc EXCEPT ![t] = queued]
           /\ UNCHANGED lock

\* "async with self.pending_lock" by task t
AcquirePendingLock(t) ==
    IF pending_lock = 0 /\ pending_waiters = <<>>
      THEN /\ pending_lock' = t
           /\ lpc' = [lpc EXCEPT ![t] = "hold_pending"]
           /\ UNCHANGED pending_waiters
      ELSE /\ pending_waiters' = Append(pending_waiters, t)
           /\ lpc' = [lpc EXCEPT ![t] = "wait_pending"]
           /\ UNCHANGED pending_lock

\* where a task is after its pending block
AfterPendingBlock(t) == IF t = PeriodicTask THEN "after_pending" ELSE "idle"

\* add_file_size is called by a fetcher
LockAddFileSize(b) ==
    /\ lpc[b] = "idle"
    /\ AcquireLock(b, "hold_lock", "wait_lock")
    /\ UNCHANGED <<pending_lock, pending_waiters>>
    /\ UNCHANGED <<supVars, fetchVars, poolVars, cmdVars, trackVars, streamVars, gatherVars>>

\* update_progress_batched is called by a fetcher
LockUpdateProgress(b) ==
    /\ lpc[b] = "idle"
    /\ AcquirePendingLock(b)
    /\ UNCHANGED <<lock, lock_waiters>>
    /\ UNCHANGED <<supVars, fetchVars, poolVars, cmdVars, trackVars, streamVars, gatherVars>>

\* complete_file is called by the as_completed loop
LockCompleteFile ==
    /\ lpc[MainTask] = "idle"
    /\ AcquireLock(MainTask, "hold_lock", "wait_lock")
    /\ UNCHANGED <<pending_lock, pending_waiters>>
    /\ UNCHANGED <<supVars, fetchVars, poolVars, cmdVars, trackVars, streamVars, gatherVars>>

\* the periodic task wakes from its sleep
LockPeriodicWake ==
    /\ lpc[PeriodicTask] = "idle"
    /\ AcquirePendingLock(PeriodicTask)
    /\ UNCHANGED <<lock, lock_waiters>>
    /\ UNCHANGED <<supVars, fetchVars, poolVars, cmdVars, trackVars, streamVars, gatherVars>>

\* the periodic task after its pending block: the 2 s test, then the block
\* that prints under self.lock, or the next sleep
LockPeriodicLog ==
    /\ lpc[PeriodicTask] = "after_pending"
    /\ \E log \in BOOLEAN :
          IF log
            THEN AcquireLock(PeriodicTask, "hold_lock", "wait_lock")
            ELSE /\ lpc' = [lpc EXCEPT ![PeriodicTask] = "idle"]
                 /\ UNCHANGED <<lock, lock_waiters>>
    /\ UNCHANGED <<pending_lock, pending_waiters>>
    /\ UNCHANGED <<supVars, fetchVars, poolVars, cmdVars, trackVars, streamVars, gatherVars>>

\* the first waiter of the released pending_lock is resumed and holds it
PendingLockGranted(t) ==
    /\ lpc[t] = "wait_pending"
    /\ pending_lock = 0
    /\ pending_waiters # <<>>
    /\ Head(pending_waiters) = t
    /\ pending_lock' = t
    /\ pending_waiters' = Tail(pending_waiters)
    /\ lpc' = [lpc EXCEPT ![t] = "hold_pending"]
    /\ UNCHANGED <<lock, lock_waiters>>
    /\ UNCHANGED <<supVars, fetchVars, poolVars, cmdVars, trackVars, streamVars, gatherVars>>

\* the first waiter of the released lock is resumed and holds it
MainLockGranted(t) ==
    /\ lpc[t] \in {"wait_lock", "wait_lock_nested"}
    /\ lock = 0
    /\ lock_waiters # <<>>
    /\ Head(lock_waiters) = t
    /\ lock' = t
    /\ lock_waiters' = Tail(lock_waiters)
    /\ lpc' = [lpc EXCEPT ![t] = IF lpc[t] = "wait_lock" THEN "hold_lock"
                                 ELSE "hold_both"]
    /\ UNCHANGED <<pending_lock, pending_waiters>>
    /\ UNCHANGED <<supVars, fetchVars, poolVars, cmdVars, trackVars, streamVars, gatherVars>>

\* the block under pending_lock: with enough pending bytes self.lock is
\* taken inside it, otherwise the block ends and pending_lock is released
PendingBlock(t) ==
    /\ lpc[t] = "hold_pending"
    /\ \E enough \in BOOLEAN :
          IF enough
            THEN /\ AcquireLock(t, "hold_both", "wait_lock_nested")
                 /\ UNCHANGED pending_lock
            ELSE /\ pending_lock' = 0
                 /\ lpc' = [lpc EXCEPT ![t] = AfterPendingBlock(t)]
                 /\ UNCHANGED <<lock, lock_waiters>>
    /\ UNCHANGED pending_waiters
    /\ UNCHANGED <<supVars, fetchVars, poolVars, cmdVars, trackVars, streamVars, gatherVars>>

\* the inner block ends and then the outer one: both locks are released
LeaveNested(t) ==
    /\ lpc[t] = "hold_both"
    /\ lock' = 0
    /\ pending_lock' = 0
    /\ lpc' = [lpc EXCEPT ![t] = AfterPendingBlock(t)]
    /\ UNCHANGED <<lock_waiters, pending_waiters>>
    /\ UNCHANGED <<supVars, fetchVars, poolVars, cmdVars, trackVars, streamVars, gatherVars>>

\* a block that asks for pending_lock while it holds self.lock
LeaveLock_TakesPending(t) ==
    /\ lpc[t] = "hold_lock"
    /\ AcquirePendingLock(t)
    /\ UNCHANGED <<lock, lock_waiters>>
    /\ UNCHANGED <<supVars, fetchVars, poolVars, cmdVars, trackVars, streamVars, gatherVars>>

\* a block under self.lock alone ends: the lock is released
LeaveLock(t) ==
    /\ lpc[t] = "hold_lock"
    /\ lock' = 0
    /\ lpc' = [lpc EXCEPT ![t] = "idle"]
    /\ UNCHANGED <<lock_waiters, pending_lock, pending_waiters>>
    /\ UNCHANGED <<supVars, fetchVars, poolVars, cmdVars, trackVars, streamVars, gatherVars>>

\* what a task does once it has called into the tracker
LockProgress(t) ==
    \/ PendingLockGranted(t)
    \/ MainLockGranted(t)
    \/ PendingBlock(t)
    \/ LeaveNested(t)
    \/ LeaveLock(t)
    \/ (t = PeriodicTask /\ LockPeriodicLog)

NextTrackerLocks ==
    \/ \E b \in Blobs : LockAddFileSize(b)
    \/ \E b \in Blobs : LockUpdateProgress(b)
    \/ LockCompleteFile
    \/ LockPeriodicWake
    \/ \E t \in Tasks : LockProgress(t)

InitTrackerLocks ==
    /\ InitSup /\ FetchAtRest /\ PoolIdle /\ CmdIdle /\ TrackIdle
    /\ StreamIdle /\ LocksIdle /\ GatherIdle

SpecTrackerLocks == InitTrackerLocks /\ [][NextTrackerLocks]_vars

\* the event loop runs every task that is ready to go on
SpecTrackerLocksFair ==
    SpecTrackerLocks /\ \A t \in Tasks : WF_vars(LockProgress(t))

\* C39: the ProgressTracker cannot deadlock.  Whenever a task gets
\* pending_lock it does not hold lock, so the two locks are only nested in
\* the order pending_lock then lock; and every task that waits for one of
\* the locks eventually holds it.
C39_NoDeadlock ==
    /\ [][\A t \in Tasks :
            (pending_lock' = t /\ pending_lock # t) => (lock # t /\ lock' # t)]_vars
    /\ [](\A t \in Tasks : lpc[t] = "wait_pending" => lock # t)
    /\ \A t \in Tasks :
          /\ (lpc[t] = "wait_pending") ~> (pending_lock = t)
          /\ (lpc[t] \in {"wait_lock", "wait_lock_nested"}) ~> (lock = t)

\* a fetcher holds pending_lock and waits for lock, which the periodic task
\* holds, while the other fetcher waits for pending_lock
C39_Witness ==
    /\ lpc[1] = "wait_lock_nested"
    /\ pending_lock = 1
    /\ lock = PeriodicTask
    /\ lpc[2] = "wait_pending"


(***************************************************************************)
(* One fan-out with its tasks counted by where they are (SpecFanout): in   *)
(* front of the semaphore, inside download_single_file_async, ended with a *)
(* result the as_completed loop has not taken, or taken.                   *)
(***************************************************************************)
\* the manifests of this specification: one descriptor, as many as the
\* least ceiling, and more than the greatest ceiling
FanoutSizes == {1, 4, MaxFiles}

FanoutOfSize ==
    /\ total_files \in FanoutSizes
    /\ declared_files = total_files
    /\ semaphore = max_concurrent_downloads(declared_files)
    /\ waiting = total_files
    /\ in_flight = 0

InitFanout ==
    /\ InitSup /\ FetchAtRest /\ CmdIdle /\ TrackIdle /\ ExtraIdle
    /\ FanoutOfSize

\* a wrapper that keeps its slot when the fetcher raises
FetcherEnds_KeepsSlotOnRaise(o) ==
    /\ in_flight > 0
    /\ in_flight' = in_flight - 1
    /\ semaphore' = IF o = "raised" THEN semaphore ELSE semaphore + 1
    /\ ended' = [ended EXCEPT ![o] = @ + 1]
    /\ UNCHANGED <<total_files, declared_files, waiting, successful_count,
                   failed_count, fanout_done>>
    /\ UNCHANGED <<supVars, fetchVars, cmdVars, trackVars, streamVars, lockVars>>

\* download_single_file_async returns or raises inside "async with
\* semaphore": the slot is released on either way out and the task ends
FetcherEnds(o) ==
    /\ in_flight > 0
    /\ in_flight' = in_flight - 1
    /\ semaphore' = semaphore + 1
    /\ ended' = [ended EXCEPT ![o] = @ + 1]
    /\ UNCHANGED <<total_files, declared_files, waiting, successful_count,
                   failed_count, fanout_done>>
    /\ UNCHANGED <<supVars, fetchVars, cmdVars, trackVars, streamVars, lockVars>>

\* one turn of the as_completed loop: "path, error = await future" for a
\* task that has ended; a path is appended to successful_downloads, an
\* error or the text of the exception to failed_downloads
TakeResult(o) ==
    /\ ~fanout_done
    /\ ended[o] > 0
    /\ ended' = [ended EXCEPT ![o] = @ - 1]
    /\ IF o = "path"
         THEN /\ successful_count' = successful_count + 1
              /\ UNCHANGED failed_count
         ELSE /\ failed_count' = failed_count + 1
              /\ UNCHANGED successful_count
    /\ UNCHANGED fanout_done
    /\ UNCHANGED <<supVars, fetchVars, poolVars, cmdVars, trackVars, streamVars,
                   lockVars>>

\* the loop has taken the result of every task: cleanup(), then the return
FanoutReturns ==
    /\ ~fanout_done
    /\ successful_count + failed_count = total_files
    /\ fanout_done' = TRUE
    /\ UNCHANGED <<ended, successful_count, failed_count>>
    /\ UNCHANGED <<supVars, fetchVars, poolVars, cmdVars, trackVars, streamVars,
                   lockVars>>

NextFanout ==
    \/ SemaphoreAcquire
    \/ \E o \in Outcomes : FetcherEnds(o)
    \/ \E o \in Outcomes : TakeResult(o)
    \/ FanoutReturns

SpecFanout == InitFanout /\ [][NextFanout]_vars

\* the event loop goes on while some task can, and a call of the fetcher
\* ends: it makes at most max_attempts requests, each under a timeout
SpecFanoutFair == SpecFanout /\ WF_vars(NextFanout)

\* the number of tasks of the fan-out, over all the places a task can be
TasksAccounted ==
    waiting + in_flight + ended["path"] + ended["error"] + ended["raised"]
    + successful_count + failed_count

\* C40: in one fan-out every descriptor's fetcher runs to an outcome exactly
\* once and the fan-out terminates, also with more descriptors than the
\* concurrency ceiling: a fetcher that fails or raises gives its slot back,
\* and each outcome is recorded as exactly one success or one failure.
C40_FanoutTerminates ==
    /\ [](TasksAccounted = total_files)
    /\ [](semaphore + in_flight = max_concurrent_downloads(declared_files))
    /\ [](fanout_done => /\ successful_count + failed_count = total_files
                         /\ waiting = 0
                         /\ in_flight = 0)
    /\ <>fanout_done

\* a fan-out of more descriptors than the ceiling has returned with both
\* successes and failures recorded
C40_Witness ==
    /\ fanout_done
    /\ total_files > MAX_CONCURRENT_DOWNLOADS
    /\ successful_count > 0
    /\ failed_count > 0

====
